---- MODULE Spec2Model ----
(***************************************************************************)
(* AutoLibrarian (aerandir83/maglibrarian): the ingestion-to-organization  *)
(* pipeline.  The specifications of this module:                           *)
(*   SpecIngest   the polling loop of main.py driving StabilityChecker     *)
(*                (monitor.py) and FileGrouper (ingest.py);                *)
(*   SpecWatch    the same tracker with check taken step by step and the   *)
(*                watchdog handlers falling between its steps;             *)
(*   SpecArchive  the loop with extract_archive (ingest.py);               *)
(*   SpecIdentify Identifier.identify (identifier.py);                     *)
(*   SpecEnrich   MetadataAggregator.enrich (providers.py), a pure         *)
(*                function applied to bounded inputs;                      *)
(*   SpecPipe     process_book (main.py), the review queue                 *)
(*                (queue_manager.py), the control surface (web/api.py) and *)
(*                Organizer.organize (organizer.py) as concurrent tasks;   *)
(*   SpecTwoKeys  the same pipeline with two source directories;           *)
(*   SpecRestart  the pipeline with restore_queue after a stop;            *)
(*   SpecDryRun   the pipeline started with --dry-run;                     *)
(*   SpecLock     the threads around the lock of QueueManager;             *)
(*   SpecStage    the names organize gives the staged files.               *)
(* Time is time.time() in whole seconds.                                   *)
(***************************************************************************)
EXTENDS Integers, Sequences, FiniteSets, TLC

VARIABLES
    now,        \* time.time()
    loop_pc,    \* position of the while-True loop of AutoLibrarian.start
    disk,       \* input tree: path -> [size, mtime] of the files that exist
    tracked,    \* StabilityChecker.tracked_files
    groups,     \* FileGrouper.groups
    obsRun,     \* history: per tracked path, the current run of equal samples seen by check
    handoff,    \* history: per path, its last hand-off to the process callback
    emitted,    \* history: the calls of the group callback
    envOps,     \* history: what the environment has done so far, and when
                \* check last found each path gone
    \* MetadataAggregator.enrich
    en_pc,          \* position in enrich
    best_match,     \* the object initial_result and best_match both name
    highest_score,  \* twice the value of highest_score
    en_p,           \* index of the provider of the outer loop
    en_results,     \* what its search returned
    en_k,           \* index of the candidate of the inner loop
    en_seed,        \* history: the fields of initial_result when enrich was called
    en_log,         \* history: the candidates scored so far
    \* process_book, the ledger, the review queue and the organize tasks
    config,     \* the Settings fields process_book reads
    ledger,     \* HistoryManager: directory key -> record
    queue,      \* QueueManager._queue: item id -> QueueItem
    pb,         \* the process_book call under way, past its history check
    tasks,      \* the organize tasks under way (executor or BackgroundTasks)
    staging,    \* OUTPUT_DIR/.staging: relative path -> staged files
    final,      \* OUTPUT_DIR: relative path -> files of the organized book
    manual,     \* OUTPUT_DIR/Manual_Intervention: base name -> content
    nTasks,     \* how many organize tasks have been submitted
    arch,       \* what each archive file of the input tree holds
    ex_log,     \* history: the calls of extract_archive
    nCalls,     \* history: how many times the grouper has called process_book
    lastCall,   \* history: the last of these calls
    lock,       \* QueueManager._lock: the thread that holds it, or none
    th,         \* where each thread is in the queue handler it runs
    st_pc,      \* the copy loop of organize: "call" or "staged"
    st_title,   \* metadata.title of the organize, as code points
    st_files,   \* the base names of the files of the organize, as code points
    st_out,     \* the name each file was staged under
    id_pc,      \* Identifier.identify: "idle", "tags", "merge" or "done"
    id_files,   \* the files identify was called with, each with its tags
    id_k,       \* the position of the loop over the files
    tag_result, \* the local of identify
    filename_result,    \* the local of identify
    final_result,       \* what identify returns
    to_process, \* StabilityChecker.check: the local list, what is left of it
    wd          \* history of the watchdog events and of the hand-offs

ingestVars == <<now, loop_pc, disk, tracked, groups, obsRun, handoff, emitted, envOps>>

enrichVars == <<en_pc, best_match, highest_score, en_p, en_results, en_k, en_seed, en_log>>

pipeVars == <<config, ledger, queue, pb, tasks, staging, final, manual, nTasks, nCalls, lastCall>>

archiveVars == <<arch, ex_log>>

lockVars == <<lock, th>>

stageVars == <<st_pc, st_title, st_files, st_out>>

identVars == <<id_pc, id_files, id_k, tag_result, filename_result, final_result>>

watchVars == <<to_process, wd>>

vars == <<ingestVars, enrichVars, pipeVars, archiveVars, lockVars, stageVars, identVars, watchVars>>

\* What the actions of one component leave alone.
notIngest == <<enrichVars, pipeVars, archiveVars, lockVars, stageVars, identVars, watchVars>>

notEnrich == <<ingestVars, pipeVars, archiveVars, lockVars, stageVars, identVars, watchVars>>

notPipe ==
    <<now, loop_pc, tracked, groups, obsRun, handoff, emitted, enrichVars, archiveVars, lockVars, stageVars, identVars, watchVars>>

----------------------------------------------------------------------------
(* Bounds of the model and configuration values.                           *)

\* Horizon of the clock.
MaxTime == 10

\* config.STABILITY_CHECK_DURATION: a Settings field (default 60), here a
\* deployment configured with a short debounce so that the horizon covers it.
STABILITY_CHECK_DURATION == 2

\* FileGrouper.window, the default argument IngestionManager constructs it with.
WINDOW == 5

\* time.sleep(1): the period of the loop.
LOOP_PERIOD == 1

\* How many times the environment acts in a run: writes, deletions, and
\* failures of os.stat on an existing path.
MaxEnvOps == 3

\* The paths of the input tree the model follows, as (directory, name).
Files == {[dir |-> "A", name |-> "1.mp3"], [dir |-> "A", name |-> "2.mp3"]}

\* The values st_size and st_mtime take.
Sizes == {1, 2}

Mtimes == {1, 2}

\* os.path.dirname
Dirname(f) == f.dir

None == <<>>

Some(x) == <<x>>

----------------------------------------------------------------------------
(* Environment: writers in the input tree, and the watchdog events.        *)

\* What os.stat gives for a file just created.
NewFileStat == [size |-> 1, mtime |-> 1]

\* A writer creates or rewrites a file, changing its size, its mtime or both.
\* Writers act between two iterations of the loop.
WriteFile(f, st) ==
    /\ loop_pc = "sleep"
    /\ envOps.changes < MaxEnvOps
    /\ IF f \in DOMAIN disk THEN disk[f] # st ELSE st = NewFileStat
    /\ envOps' = [envOps EXCEPT !.changes = @ + 1]
    /\ disk' = [p \in DOMAIN disk \cup {f} |-> IF p = f THEN st ELSE disk[p]]
    /\ UNCHANGED <<now, loop_pc, tracked, groups, obsRun, handoff, emitted, notIngest>>

DeleteFile(f) ==
    /\ loop_pc = "sleep"
    /\ f \in DOMAIN disk
    /\ envOps.changes < MaxEnvOps
    /\ envOps' = [envOps EXCEPT !.changes = @ + 1]
    /\ disk' = [p \in DOMAIN disk \ {f} |-> disk[p]]
    /\ UNCHANGED <<now, loop_pc, tracked, groups, obsRun, handoff, emitted, notIngest>>

\* os.path.splitext(path)[1].lower() of the names the model uses.
Ext(f) ==
    CASE f.name \in {"1.mp3", "2.mp3"} -> ".mp3"
      [] f.name = "book.zip" -> ".zip"
      [] f.name = "notes.txt" -> ".txt"

\* config.ALLOWED_EXTENSIONS
ALLOWED_EXTENSIONS ==
    {".m4b", ".mp3", ".m4a", ".flac", ".opus", ".wma", ".epub", ".pdf", ".jpg", ".png"}

\* The variant of Trackable without the test of the extension.
Trackable_Any(f) == TRUE

\* monitor.py line 37: the paths add_file accepts.
Trackable(f) == Ext(f) \in ALLOWED_EXTENSIONS \/ Ext(f) = ".zip"

\* The variant of TrackerAdd without the test of line 34: the entry of a
\* tracked path is replaced by a fresh one.
TrackerAdd_Resets(t, f) ==
    IF Trackable(f)
    THEN [p \in DOMAIN t \cup {f} |->
            IF p = f
            THEN [last_size |-> -1, last_mtime |-> -1, stable_start_time |-> None]
            ELSE t[p]]
    ELSE t

\* StabilityChecker.add_file
TrackerAdd(t, f) ==
    IF f \notin DOMAIN t /\ Trackable(f)
    THEN [p \in DOMAIN t \cup {f} |->
            IF p = f
            THEN [last_size |-> -1, last_mtime |-> -1, stable_start_time |-> None]
            ELSE t[p]]
    ELSE t

\* on_created / on_moved / on_modified (update_activity), and one path of
\* scan_existing_files: each ends in add_file, or in nothing for a tracked path.
FsEvent(f) ==
    /\ loop_pc = "sleep"
    /\ f \in DOMAIN disk
    /\ tracked' = TrackerAdd(tracked, f)
    /\ UNCHANGED <<now, loop_pc, disk, groups, obsRun, handoff, emitted, envOps, notIngest>>

----------------------------------------------------------------------------
(* StabilityChecker.check (monitor.py) and FileGrouper (ingest.py).        *)

\* The test of monitor.py line 73: the sample equals the stored one.
SameSample(data, st) ==
    st.size = data.last_size /\ st.mtime = data.last_mtime

\* The variant of IsStable that forgets to compare the sample again once
\* stable_start_time is set.
IsStable_IgnoresChange(data, st, t) ==
    /\ data.stable_start_time # None
    /\ t - data.stable_start_time[1] >= STABILITY_CHECK_DURATION

\* monitor.py lines 73-77: the entry is appended to to_process.
IsStable(data, st, t) ==
    /\ SameSample(data, st)
    /\ data.stable_start_time # None
    /\ t - data.stable_start_time[1] >= STABILITY_CHECK_DURATION

\* monitor.py lines 73-82: what one iteration of the loop leaves in the entry.
CheckEntry(data, st, t) ==
    IF SameSample(data, st)
    THEN IF data.stable_start_time = None
         THEN [data EXCEPT !.stable_start_time = Some(t)]
         ELSE data
    ELSE [last_size |-> st.size, last_mtime |-> st.mtime,
          stable_start_time |-> None]

\* FileGrouper.add_file for every path of fs, all at time t.
GrouperAdd(g, fs, t) ==
    LET dirs == {Dirname(f) : f \in fs}
    IN  [d \in DOMAIN g \cup dirs |->
           IF d \in dirs
           THEN [files |-> (IF d \in DOMAIN g THEN g[d].files ELSE {})
                             \cup {f \in fs : Dirname(f) = d},
                 last_update |-> t]
           ELSE g[d]]

\* The paths check appends to to_process (lines 73-77).  statFails are the
\* paths whose os.stat raises OSError (line 69): their entries are left alone.
ToProcess(statFails) ==
    {f \in (DOMAIN tracked \cap DOMAIN disk) \ statFails :
        IsStable(tracked[f], disk[f], now)}

\* The variant of Disappeared that never finds a path gone.
Disappeared_Never(t, d) == {}

\* monitor.py line 60: the tracked paths for which os.path.exists is false.
Disappeared(t, d) == DOMAIN t \ DOMAIN d

\* History of lines 61-63: the time of this check, for each path it discards.
Discards(e) ==
    LET gone == Disappeared(tracked, disk)
    IN  [e EXCEPT !.dropped = [f \in DOMAIN @ \cup gone |->
                                 IF f \in gone THEN now ELSE @[f]]]

\* What check does to the tracker (lines 59-85), with the history of the
\* samples it saw and of the paths it handed to process_callback.
CheckTracker(statFails) ==
    LET gone      == Disappeared(tracked, disk)
        seen      == (DOMAIN tracked \cap DOMAIN disk) \ statFails
        toProcess == ToProcess(statFails)
        sample(f) == <<disk[f].size, disk[f].mtime>>
        run(f)    == IF f \in DOMAIN obsRun
                     THEN IF obsRun[f].sample = sample(f)
                          THEN obsRun[f]
                          ELSE [sample |-> sample(f), since |-> now, reset |-> TRUE]
                     ELSE [sample |-> sample(f), since |-> now, reset |-> FALSE]
    IN  /\ tracked' = [f \in (DOMAIN tracked \ gone) \ toProcess |->
                         IF f \in seen THEN CheckEntry(tracked[f], disk[f], now)
                                       ELSE tracked[f]]
        /\ obsRun' = [f \in ((DOMAIN obsRun \cup seen) \ gone) \ toProcess |->
                        IF f \in seen THEN run(f) ELSE obsRun[f]]
        /\ handoff' = [f \in DOMAIN handoff \cup toProcess |->
                         IF f \in toProcess
                         THEN [at |-> now, since |-> run(f).since,
                               afterReset |-> run(f).reset,
                               fate |-> "grouped", eAt |-> now]
                         ELSE handoff[f]]

\* One call of StabilityChecker.check from Monitor.tick, where every path
\* handed to IngestionManager.process_file is no archive and has an allowed
\* extension: each goes to the grouper.
Check(statFails) ==
    /\ CheckTracker(statFails)
    /\ groups' = GrouperAdd(groups, ToProcess(statFails), now)

\* The variant of WindowElapsed that lets a group go one loop period before
\* the window is over.
WindowElapsed_Early(data, t) == t - data.last_update >= WINDOW - LOOP_PERIOD

\* ingest.py line 35: the group has been quiet for the window.
WindowElapsed(data, t) == t - data.last_update >= WINDOW

\* ingest.py line 41: the members that still exist.
ValidFiles(files) == {f \in files : f \in DOMAIN disk}

\* The variant of CallbackInvoked without the test of line 42.
CallbackInvoked_Always(valid) == TRUE

\* ingest.py line 42: the callback is invoked.
CallbackInvoked(valid) == valid # {}

\* The variant of GroupsAfterEmit that forgets the del of line 44.
GroupsAfterEmit_KeepsGroups(g, toEmit) == g

\* ingest.py line 44: the groups left in the mapping after the emission loop.
GroupsAfterEmit(g, toEmit) == [d \in DOMAIN g \ toEmit |-> g[d]]

\* One call of FileGrouper.check_groups from IngestionManager.tick.
CheckGroups ==
    LET toEmit == {d \in DOMAIN groups : WindowElapsed(groups[d], now)}
        calls  == {[dir |-> d, files |-> ValidFiles(groups[d].files), at |-> now,
                    present |-> groups[d].files \cap DOMAIN disk]
                     : d \in {x \in toEmit :
                                CallbackInvoked(ValidFiles(groups[x].files))}}
        done   == UNION {groups[d].files : d \in toEmit}
    IN  /\ emitted' = emitted \cup calls
        /\ groups' = GroupsAfterEmit(groups, toEmit)
        /\ handoff' = [f \in DOMAIN handoff |->
                         IF f \in done
                         THEN [handoff[f] EXCEPT
                                 !.fate = IF f \in DOMAIN disk THEN "emitted"
                                                               ELSE "vanished",
                                 !.eAt = now]
                         ELSE handoff[f]]

----------------------------------------------------------------------------
(* The loop of AutoLibrarian.start (main.py lines 89-92).                  *)

LoopSleep ==
    /\ loop_pc = "sleep"
    /\ now + LOOP_PERIOD <= MaxTime
    /\ now' = now + LOOP_PERIOD
    /\ loop_pc' = "monitor"
    /\ UNCHANGED <<disk, tracked, groups, obsRun, handoff, emitted, envOps, notIngest>>

MonitorTick ==
    /\ loop_pc = "monitor"
    /\ \/ Check({}) /\ envOps' = Discards(envOps)
       \/ /\ envOps.changes < MaxEnvOps
          /\ envOps' = Discards([envOps EXCEPT !.changes = @ + 1])
          /\ \E f \in DOMAIN tracked \cap DOMAIN disk : Check({f})
    /\ loop_pc' = "ingest"
    /\ UNCHANGED <<now, disk, emitted, notIngest>>

IngestTick ==
    /\ loop_pc = "ingest"
    /\ CheckGroups
    /\ loop_pc' = "sleep"
    /\ UNCHANGED <<now, disk, tracked, obsRun, envOps, notIngest>>

EmptyMap == [x \in {} |-> x]

\* The pipeline before any file has arrived.
IngestIdle ==
    /\ now = 0
    /\ loop_pc = "sleep"
    /\ disk = EmptyMap
    /\ tracked = EmptyMap
    /\ groups = EmptyMap
    /\ obsRun = EmptyMap
    /\ handoff = EmptyMap
    /\ emitted = {}
    /\ envOps = [changes |-> 0, dropped |-> EmptyMap]

\* No enrich call is under way.
EnrichIdle ==
    /\ en_pc = "idle"
    /\ best_match = None
    /\ highest_score = 0
    /\ en_p = 0
    /\ en_results = <<>>
    /\ en_k = 0
    /\ en_seed = None
    /\ en_log = <<>>

\* Settings as config.py declares them; nothing processed yet.
PipeIdle ==
    /\ config = [WEB_UI_ENABLED |-> TRUE, MATCH_THRESHOLD_PROBABLE |-> 70, DRY_RUN |-> FALSE]
    /\ ledger = EmptyMap
    /\ queue = EmptyMap
    /\ pb = None
    /\ tasks = EmptyMap
    /\ staging = EmptyMap
    /\ final = EmptyMap
    /\ manual = EmptyMap
    /\ nTasks = 0
    /\ nCalls = 0
    /\ lastCall = None

\* No archive in the input tree.
ArchiveIdle ==
    /\ arch = EmptyMap
    /\ ex_log = <<>>

\* The threads that call the QueueManager: the main loop and the workers of
\* the web server.
Threads == {"loop", "api1", "api2"}

\* No thread is inside a handler and the lock is free.
ThreadIdle == [pc |-> "idle", id |-> None, ref |-> 0, title |-> ""]

LockIdle ==
    /\ lock = None
    /\ th = [t \in Threads |-> ThreadIdle]

\* No organize is at its copy loop.
StageIdle ==
    /\ st_pc = "idle"
    /\ st_title = <<>>
    /\ st_files = {}
    /\ st_out = EmptyMap

\* No identify is under way.
IdentIdle ==
    /\ id_pc = "idle"
    /\ id_files = <<>>
    /\ id_k = 0
    /\ tag_result = None
    /\ filename_result = None
    /\ final_result = None

\* No check is between its two loops and no event has been delivered.
WatchIdle ==
    /\ to_process = {}
    /\ wd = [last |-> None, calling |-> None,
             hist |-> [f \in Files |-> [episode |-> 0, handed |-> 0]]]

InitIngest ==
    /\ IngestIdle /\ EnrichIdle /\ PipeIdle /\ ArchiveIdle
    /\ LockIdle /\ StageIdle /\ IdentIdle /\ WatchIdle

NextIngest ==
    \/ \E f \in Files, s \in Sizes, m \in Mtimes : WriteFile(f, [size |-> s, mtime |-> m])
    \/ \E f \in Files : DeleteFile(f)
    \/ \E f \in Files : FsEvent(f)
    \/ LoopSleep
    \/ MonitorTick
    \/ IngestTick

SpecIngest == InitIngest /\ [][NextIngest]_vars

----------------------------------------------------------------------------
(* Properties of the stability tracker and the grouper (SpecIngest).       *)

\* C1: a path is handed to the process callback only when check has seen the
\* same (size, mtime) sample over checks spanning at least
\* STABILITY_CHECK_DURATION, and an entry whose stable_start_time is set holds
\* the sample of the current run of equal observations, set after that run
\* began: every observed change has cleared it.
ClaimC1_StableBeforeHandoff ==
    /\ \A f \in DOMAIN handoff :
         handoff[f].at - handoff[f].since >= STABILITY_CHECK_DURATION
    /\ \A f \in DOMAIN tracked :
         tracked[f].stable_start_time # None =>
           /\ f \in DOMAIN obsRun
           /\ obsRun[f].sample = <<tracked[f].last_size, tracked[f].last_mtime>>
           /\ obsRun[f].since < tracked[f].stable_start_time[1]

\* A path was handed off after check had seen it change and restart its debounce.
WitnessC1_HandoffAfterReset ==
    \E f \in DOMAIN handoff : handoff[f].afterReset

\* C9: the group callback never receives an empty list, it receives exactly
\* the members that exist at emission time, and once check_groups has run no
\* group whose window has elapsed is left in the mapping.
ClaimC9_NoEmptyGroup ==
    /\ \A e \in emitted : e.files # {} /\ e.files = e.present
    /\ loop_pc = "sleep" =>
         \A d \in DOMAIN groups : now - groups[d].last_update < WINDOW

\* A group whose only member vanished was removed without a callback.
WitnessC9_VanishedGroupDropped ==
    \E f \in DOMAIN handoff :
      /\ handoff[f].fate = "vanished"
      /\ Dirname(f) \notin DOMAIN groups
      /\ \A e \in emitted : ~(e.dir = Dirname(f) /\ e.at = handoff[f].eAt)

\* Two distinct paths of one directory handed off less than WINDOW apart, the
\* first of which has left the mapping.
HandedOffTogether(f1, f2) ==
    /\ f1 # f2
    /\ Dirname(f1) = Dirname(f2)
    /\ handoff[f1].at - handoff[f2].at < WINDOW
    /\ handoff[f2].at - handoff[f1].at < WINDOW
    /\ handoff[f1].fate # "grouped"

\* The emissions that hold f and follow its last hand-off.
EmissionsOf(f) ==
    {e \in emitted : e.dir = Dirname(f) /\ e.at >= handoff[f].at /\ f \in e.files}

\* C10 as stated: two such paths are emitted in one group that holds both,
\* exactly once.
ClaimC10_Original ==
    \A f1 \in DOMAIN handoff, f2 \in DOMAIN handoff :
      HandedOffTogether(f1, f2) =>
        /\ Cardinality(EmissionsOf(f1)) = 1
        /\ EmissionsOf(f1) = EmissionsOf(f2)

\* C10 amended: two such paths leave the mapping in the same check_groups
\* pass as one group; each of the two that still exists at that time is in the
\* single emission of the group, one that has vanished is in none, and no
\* emission of the group is repeated.
ClaimC10_OneGroupOfSurvivors ==
    \A f1 \in DOMAIN handoff, f2 \in DOMAIN handoff :
      HandedOffTogether(f1, f2) =>
        /\ handoff[f2].fate # "grouped"
        /\ handoff[f1].eAt = handoff[f2].eAt
        /\ \A f \in {f1, f2} :
             /\ handoff[f].fate = "emitted" =>
                  /\ Cardinality(EmissionsOf(f)) = 1
                  /\ \A e \in EmissionsOf(f) : e.at = handoff[f].eAt
             /\ handoff[f].fate = "vanished" => EmissionsOf(f) = {}
        /\ (handoff[f1].fate = "emitted" /\ handoff[f2].fate = "emitted") =>
             EmissionsOf(f1) = EmissionsOf(f2)

\* Two paths handed off at different times less than WINDOW apart were emitted
\* together.
WitnessC10_TwoFilesOneGroup ==
    \E f1 \in DOMAIN handoff, f2 \in DOMAIN handoff :
      /\ HandedOffTogether(f1, f2)
      /\ handoff[f1].at # handoff[f2].at
      /\ handoff[f1].fate = "emitted"
      /\ handoff[f2].fate = "emitted"
      /\ \E e \in emitted : {f1, f2} \subseteq e.files

Max(S) == CHOOSE x \in S : \A y \in S : y <= x

\* The time of the last add_file of a group: the latest hand-off of a member.
LastAdd(files) == Max({handoff[f].at : f \in files})

\* C27, the timer: last_update of every group is the time of the last
\* add_file for its key, and every member of a group was added after the
\* last emission of the key, so a file that comes after an emission is in a
\* new group.
TimerFollowsLastAdd ==
    \A d \in DOMAIN groups :
      /\ groups[d].files # {}
      /\ groups[d].files \subseteq DOMAIN handoff
      /\ groups[d].last_update = LastAdd(groups[d].files)
      /\ \A f \in groups[d].files : handoff[f].fate = "grouped"
      /\ \A e \in emitted : e.dir = d => e.at < groups[d].last_update

\* C27: check_groups emits and removes exactly the groups whose last
\* add_file lies at least WINDOW back and leaves the others as they are;
\* every emission is of such a group; and at all times the timer of a group
\* is that of its last add_file and its members are later than the last
\* emission of its key.
ClaimC27_EmittedAfterQuietWindow ==
    /\ [](TimerFollowsLastAdd)
    /\ [][(loop_pc = "ingest" /\ loop_pc' = "sleep") =>
            /\ \A d \in DOMAIN groups :
                 IF now - LastAdd(groups[d].files) >= WINDOW
                 THEN d \notin DOMAIN groups'
                 ELSE d \in DOMAIN groups' /\ groups'[d] = groups[d]
            /\ \A e \in emitted' \ emitted :
                 /\ e.dir \in DOMAIN groups
                 /\ e.files \subseteq groups[e.dir].files
                 /\ e.at - LastAdd(groups[e.dir].files) >= WINDOW]_vars

\* A group was emitted whose timer had been restarted by a second file: the
\* emission came a WINDOW after that file, later than a WINDOW after the
\* first.
WitnessC27_RestartedTimerAndNewGroup ==
    \E e \in emitted :
      /\ \E f \in e.files, g \in e.files :
           /\ handoff[f].fate = "emitted"
           /\ handoff[g].fate = "emitted"
           /\ handoff[f].at < handoff[g].at
           /\ e.at - handoff[f].at > WINDOW
           /\ e.at - handoff[g].at >= WINDOW

----------------------------------------------------------------------------
(* MetadataAggregator.enrich (providers.py).  A result is the record of    *)
(* the IdentificationResult fields the merge reads or writes; year and     *)
(* description stand for the six fill-only fields (description, year,      *)
(* isbn, asin, cover_url, narrator), which lines 306-317 treat alike.      *)
(* Scores are kept doubled, so that (title + author) / 2 stays an integer: *)
(* highest_score and the confidence field hold twice the Python value.     *)

\* Python's None in a string field.
Null == "<null>"

\* A test that takes only None for falsy, where Python takes the empty string
\* too.
Falsy_NoneOnly(x) == x = Null

\* Python truthiness of an Optional[str].
Falsy(x) == x = Null \/ x = ""

\* The threshold of line 322.
MERGE_TRUST == 90

\* How many candidates the providers return in one enrich call.
MaxCands == 3

\* The providers __init__ registers under the default METADATA_PROVIDERS.
Providers == <<"openlibrary", "googlebooks", "audible", "audnexus">>

\* What identify hands to enrich: confidence is the field's default.
Seeds ==
    { [title |-> "Dune", author |-> "Frank Herbert", year |-> Null,
       description |-> Null, confidence |-> 0],
      [title |-> "Dune", author |-> Null, year |-> "1965",
       description |-> Null, confidence |-> 0],
      [title |-> Null, author |-> Null, year |-> Null,
       description |-> Null, confidence |-> 0],
      [title |-> "", author |-> "Frank Herbert", year |-> "1965",
       description |-> Null, confidence |-> 0] }

\* The candidates a search may return.
Pool ==
    { [title |-> "DUNE", author |-> "Frank Herbert", year |-> "1965",
       description |-> "A desert planet"],
      [title |-> "Dunes", author |-> Null, year |-> "1999",
       description |-> Null],
      [title |-> "Dunes", author |-> "Frank Herbert", year |-> "",
       description |-> "Sand"],
      [title |-> "Dune", author |-> Null, year |-> "1984",
       description |-> Null],
      [title |-> "Emma", author |-> "Jane Austen", year |-> "1815",
       description |-> "A novel"],
      [title |-> Null, author |-> Null, year |-> "", description |-> Null] }

\* str.lower on the strings of Seeds and Pool.
Lower(x) ==
    CASE x \in {"Dune", "DUNE"} -> "dune"
      [] x = "Dunes" -> "dunes"
      [] x = "Emma" -> "emma"
      [] x = "Frank Herbert" -> "frank herbert"
      [] x = "Jane Austen" -> "jane austen"
      [] OTHER -> x

\* thefuzz.fuzz.ratio on those strings: round(100 * 2 * LCS / (len a + len b)).
Ratio(a, b) ==
    IF a = b THEN 100
    ELSE CASE {a, b} = {"dune", "dunes"} -> 89
           [] {a, b} = {"dune", "emma"} -> 25
           [] {a, b} = {"dunes", "emma"} -> 22
           [] {a, b} = {"frank herbert", "jane austen"} -> 33

\* _calculate_score, doubled.
Score2(target, candidate) ==
    LET title_score == Ratio(Lower(target.title), Lower(candidate.title))
    IN  IF ~Falsy(target.author) /\ ~Falsy(candidate.author)
        THEN title_score + Ratio(Lower(target.author), Lower(candidate.author))
        ELSE 2 * title_score

\* _calculate_score raises AttributeError: None has no lower().
ScoreRaises(target, candidate) ==
    target.title = Null \/ candidate.title = Null

\* The variant of Merge that takes the provider's title and author whatever
\* the score.
Merge_AlwaysOverwrites(base, new) ==
    [base EXCEPT
       !.description = IF ~Falsy(new.description) THEN new.description ELSE @,
       !.year = IF ~Falsy(new.year) THEN new.year ELSE @,
       !.title = new.title,
       !.author = new.author]

\* _merge: base is changed in place and returned.
Merge(base, new) ==
    [base EXCEPT
       !.description = IF ~Falsy(new.description) THEN new.description ELSE @,
       !.year = IF ~Falsy(new.year) THEN new.year ELSE @,
       !.title = IF new.confidence > 2 * MERGE_TRUST THEN new.title ELSE @,
       !.author = IF new.confidence > 2 * MERGE_TRUST THEN new.author ELSE @]

\* The variant of IsNewMaximum that also takes a score equal to the maximum.
IsNewMaximum_OrEqual(score, highest) == score >= highest

\* The test of line 286.
IsNewMaximum(score, highest) == score > highest

SeqsUpTo(S, n) == UNION {[1..k -> S] : k \in 0..n}

\* enrich, lines 267-276.
EnrichBegin ==
    /\ en_pc = "call"
    /\ IF Falsy(best_match.title)
       THEN en_pc' = "done" /\ UNCHANGED <<highest_score, en_p>>
       ELSE en_pc' = "search" /\ highest_score' = 0 /\ en_p' = 1
    /\ UNCHANGED <<best_match, en_results, en_k, en_seed, en_log, notEnrich>>

\* Lines 278-279: provider.search, which catches its own failures and returns
\* a list; AudnexusProvider.search returns the empty list.
EnrichSearch ==
    /\ en_pc = "search"
    /\ en_p <= Len(Providers)
    /\ \E results \in IF Providers[en_p] = "audnexus"
                      THEN {<<>>}
                      ELSE SeqsUpTo(Pool, MaxCands - Len(en_log)) :
         en_results' = results
    /\ en_k' = 1
    /\ en_pc' = "score"
    /\ UNCHANGED <<best_match, highest_score, en_p, en_seed, en_log, notEnrich>>

\* Lines 281-288: one candidate is scored against initial_result, which is
\* the object best_match names, and merged when it is a new maximum.
EnrichScore ==
    /\ en_pc = "score"
    /\ en_k <= Len(en_results)
    /\ LET res == en_results[en_k]
       IN  IF ScoreRaises(best_match, res)
           THEN /\ en_pc' = "raised"
                /\ UNCHANGED <<best_match, highest_score, en_k, en_log>>
           ELSE LET score  == Score2(best_match, res)
                    scored == [title |-> res.title, author |-> res.author,
                               year |-> res.year, description |-> res.description,
                               confidence |-> score]
                    isMax  == IsNewMaximum(score, highest_score)
                IN  /\ highest_score' = IF isMax THEN score ELSE highest_score
                    /\ best_match' = IF isMax THEN Merge(best_match, scored)
                                              ELSE best_match
                    /\ en_log' = Append(en_log, [prov |-> en_p, cand |-> res,
                                                 score |-> score, merged |-> isMax])
                    /\ en_k' = en_k + 1
                    /\ UNCHANGED en_pc
    /\ UNCHANGED <<en_p, en_results, en_seed, notEnrich>>

\* The inner loop is exhausted: on to the next provider.
EnrichNextProvider ==
    /\ en_pc = "score"
    /\ en_k > Len(en_results)
    /\ en_p' = en_p + 1
    /\ en_pc' = "search"
    /\ UNCHANGED <<best_match, highest_score, en_results, en_k, en_seed, en_log, notEnrich>>

\* Line 290.
EnrichReturn ==
    /\ en_pc = "search"
    /\ en_p > Len(Providers)
    /\ en_pc' = "done"
    /\ UNCHANGED <<best_match, highest_score, en_p, en_results, en_k, en_seed, en_log, notEnrich>>

InitEnrich ==
    /\ IngestIdle
    /\ PipeIdle
    /\ ArchiveIdle
    /\ LockIdle
    /\ StageIdle
    /\ IdentIdle
    /\ WatchIdle
    /\ en_pc = "call"
    /\ best_match \in Seeds
    /\ en_seed = best_match
    /\ highest_score = 0
    /\ en_p = 0
    /\ en_results = <<>>
    /\ en_k = 0
    /\ en_log = <<>>

NextEnrich ==
    \/ EnrichBegin
    \/ EnrichSearch
    \/ EnrichScore
    \/ EnrichNextProvider
    \/ EnrichReturn

SpecEnrich == InitEnrich /\ [][NextEnrich]_vars

----------------------------------------------------------------------------
(* Properties of enrich (SpecEnrich).                                      *)

\* C30: when the seed title is empty, enrich returns the seed with every
\* field unchanged and no provider is searched; when the title is not empty
\* and the providers returned no candidate, the result is the seed with every
\* field unchanged.
ClaimC30_SeedUnchangedWithoutCandidates ==
    /\ [](en_pc = "done" /\ en_seed.title \in {Null, ""}
            => best_match = en_seed /\ en_p = 0 /\ en_log = <<>>)
    /\ [][(en_pc = "search" /\ en_pc' = "score") => en_seed.title \notin {Null, ""}]_vars
    /\ [](en_pc = "done" /\ en_seed.title \notin {Null, ""} /\ en_log = <<>>
            => best_match = en_seed)

\* enrich has returned for a seed with an empty title and an author and a
\* year set.
WitnessC30_EmptyTitleReturned ==
    /\ en_pc = "done"
    /\ en_seed.title = ""
    /\ en_seed.author # Null
    /\ best_match = en_seed

\* Twice the highest score enrich computed, 0 when it scored no candidate.
HighestScored == Max({0} \cup {en_log[k].score : k \in 1..Len(en_log)})

\* C6: the result enrich returns has a confidence equal to the highest score
\* computed over all candidates, and 0 when there was none.
ClaimC6_ConfidenceIsHighestScore ==
    en_pc = "done" => best_match.confidence = HighestScored

\* C7: while no merged candidate has scored above 90, the title and author
\* of the running result are those of the seed.
ClaimC7_TitleAuthorKeptUpTo90 ==
    (\A k \in 1..Len(en_log) :
        en_log[k].merged => en_log[k].score <= 2 * MERGE_TRUST) =>
      /\ best_match.title = en_seed.title
      /\ best_match.author = en_seed.author

\* enrich returned after merging a candidate of another title that scored 90
\* or less.
WitnessC7_LowCandidateMerged ==
    /\ en_pc = "done"
    /\ \E k \in 1..Len(en_log) :
         /\ en_log[k].merged
         /\ en_log[k].cand.title # en_seed.title
    /\ \A k \in 1..Len(en_log) : en_log[k].score <= 2 * MERGE_TRUST

\* C8: a candidate is merged exactly when its score is above every score
\* computed before it (and above 0): of several candidates sharing the
\* highest score only the first, in provider registration order, is merged.
ClaimC8_FirstOfTiesMerged ==
    \A k \in 1..Len(en_log) :
      en_log[k].merged <=>
        /\ en_log[k].score > 0
        /\ \A j \in 1..(k - 1) : en_log[j].score < en_log[k].score

\* Two providers returned candidates sharing the highest score; the earlier
\* one was merged and the later one was not.
WitnessC8_TieAcrossProviders ==
    /\ en_pc = "done"
    /\ \E j \in 1..Len(en_log), k \in 1..Len(en_log) :
         /\ en_log[j].prov < en_log[k].prov
         /\ en_log[j].score = HighestScored
         /\ en_log[k].score = HighestScored
         /\ en_log[j].merged
         /\ ~en_log[k].merged

\* ---------------------------------------------------------------------------
\* process_book, the ledger, the review queue, the web handlers and organize
\* ---------------------------------------------------------------------------

MaxEmits == 2

MaxTasks == 2

\* How often extract_archive is called in a dry run.
MaxExtracts == 2

\* The directory keys the grouper can emit.
Dirs == {Dirname(f) : f \in Files}

INPUT_DIR == "/data/input"

FilesIn(d, dk) == {f \in DOMAIN dk : Dirname(f) = d}

\* os.path.basename of the directory keys the model uses.
Basename(d) ==
    CASE d = "x/Book" -> "Book"
      [] d = "y/Book" -> "Book"
      [] OTHER -> d

WithoutKey(m, k) == [x \in DOMAIN m \ {k} |-> m[x]]

WithKey(m, k, v) == [x \in DOMAIN m \cup {k} |-> IF x = k THEN v ELSE m[x]]

\* What identification followed by enrichment can return.  The confidence is
\* the default of a fresh IdentificationResult: neither _merge_results nor
\* enrich assigns it.
Metas == {[title |-> "Dune", author |-> "Frank Herbert", confidence |-> 0]}

\* The titles an operator can give a queued item.
Titles == {"Dune", "Emma"}

\* The settings the pipeline is deployed with: review in the web UI (the
\* default), or none, with the default threshold or with threshold 0 for an
\* installation that organizes every book.
Configs ==
    {[WEB_UI_ENABLED |-> TRUE, MATCH_THRESHOLD_PROBABLE |-> 70, DRY_RUN |-> FALSE],
     [WEB_UI_ENABLED |-> FALSE, MATCH_THRESHOLD_PROBABLE |-> 70, DRY_RUN |-> FALSE],
     [WEB_UI_ENABLED |-> FALSE, MATCH_THRESHOLD_PROBABLE |-> 0, DRY_RUN |-> FALSE]}

\* The variant of DryRun that ignores the flag.
DryRun_Ignored == FALSE

\* config.DRY_RUN, set by --dry-run (main.py 174-175) and read before every
\* filesystem action of extract_archive, organize and move_to_manual.
DryRun == config.DRY_RUN

\* organize: the path of the book below OUTPUT_DIR and below .staging (no
\* series; neither name holds a character _sanitize would replace).
RelPath(m) ==
    <<IF Falsy(m.author) THEN "Unknown Author" ELSE m.author,
      IF Falsy(m.title) THEN "Unknown Title" ELSE m.title>>

\* HistoryManager.calculate_hash: order-independent, over the member paths
\* and their sizes; a member that is no longer there counts with size 0.
calculate_hash(d, files, dk) ==
    {<<f, IF f \in DOMAIN dk THEN dk[f].size ELSE 0>> : f \in files}

\* HistoryManager.get_state: the record of the key, or nothing.
get_state(l, d) == IF d \in DOMAIN l THEN Some(l[d]) ELSE None

\* HistoryManager.update_state: the record of the key is replaced.
update_state(l, d, h, st, files, m) ==
    WithKey(l, d, [content_hash |-> h, status |-> st, files |-> files, metadata |-> m])

\* process_book skips a set whose ledger record has the same hash and is
\* pending or processed.
SkipsOnlyPending(state, h) ==
    /\ state # None
    /\ state[1].content_hash = h
    /\ state[1].status = "pending"

\* The variant of ShouldSkip that does not compare the hash.
SkipsWhateverHash(state, h) ==
    /\ state # None
    /\ state[1].status \in {"pending", "processed"}

\* The variant of ShouldSkip that also skips a set the operator rejected.
SkipsIgnoredToo(state, h) ==
    /\ state # None
    /\ state[1].content_hash = h
    /\ state[1].status \in {"pending", "processed", "ignored"}

ShouldSkip(state, h) ==
    /\ state # None
    /\ state[1].content_hash = h
    /\ state[1].status \in {"pending", "processed"}

\* The variant of ItemId that draws a fresh id for every call.
ItemId_Fresh(d) == <<"id", d, nCalls>>

\* QueueItem.create, line 17: item_id = str(hash(dirpath)), within one
\* process a function of the directory key alone.
ItemId(d) == <<"id", d>>

\* QueueItem.create and QueueManager.add_item, lines 55-56: the item is
\* stored under its id and takes the place of any item of the same id.  o
\* names the metadata object the item holds.
QueueAdd(q, d, files, m, o) ==
    WithKey(q, ItemId(d), [id |-> ItemId(d), dirpath |-> d, files |-> files, metadata |-> m,
                           obj |-> o, status |-> "pending"])

\* The source removal that organize and move_to_manual share: the whole
\* directory unless it is the input root, then the listed files.
SourceRemoved(dk, d, files) ==
    IF d # INPUT_DIR
    THEN [f \in DOMAIN dk \ FilesIn(d, dk) |-> dk[f]]
    ELSE [f \in DOMAIN dk \ files |-> dk[f]]

\* The variant of SourceAfterFailedRename that cleans the source up although
\* the rename failed.
SourceAfterFailedRename_Removed(dk, d, files) == SourceRemoved(dk, d, files)

\* organize, lines 118-135: the removal of the source follows os.rename inside
\* the try block, so a rename that raises leaves the input tree as it was.
SourceAfterFailedRename(dk, d, files) == dk

\* add_item, lines 59-66: unless the item comes from the history, the
\* ledger record of the key is written as pending under the hash of the
\* files as they are now.
AddItemLedger(l, d, files, m, from_history, dk) ==
    IF from_history
    THEN l
    ELSE update_state(l, d, calculate_hash(d, files, dk), "pending", files, m)

NewTask(id, d, files, m, o, h, origin) ==
    [item_id |-> id, key |-> d, files |-> files, meta |-> m, obj |-> o, hash |-> h,
     origin |-> origin, pc |-> "start", rel |-> None, promoteFailed |-> FALSE]


\* The grouper calls process_book (lines 98-111): history check, and a
\* return without effect when the set is to be skipped.
ProcessBookCall(d, files) ==
    /\ loop_pc = "sleep"
    /\ pb = None
    /\ nCalls < MaxEmits
    /\ files # {}
    /\ files \subseteq FilesIn(d, disk)
    /\ LET state == get_state(ledger, d)
           current_hash == calculate_hash(d, files, disk)
       IN  /\ nCalls' = nCalls + 1
           /\ lastCall' = Some([dir |-> d, readd |-> FALSE,
                                skipped |-> IF ShouldSkip(state, current_hash)
                                            THEN files ELSE {},
                                processedSame |-> /\ state # None
                                                  /\ state[1].status = "processed"
                                                  /\ state[1].content_hash = current_hash])
           /\ pb' = IF ShouldSkip(state, current_hash)
                    THEN None
                    ELSE Some([dir |-> d, files |-> files, hash |-> current_hash])
    /\ UNCHANGED <<config, ledger, queue, tasks, staging, final, manual, nTasks>>
    /\ UNCHANGED <<disk, envOps, notPipe>>

\* get_state or calculate_hash raises (lines 102-103, before the try of line
\* 112).  Neither on_group_ready, check_groups, tick nor the loop of start
\* handles it (start catches KeyboardInterrupt only): the main thread ends
\* and the process exits when the organize operations the executor is
\* running have finished.  The queue and the operations of the web server
\* thread, a daemon thread, go with the process.
ProcessBookLedgerRaises(d, files) ==
    /\ loop_pc = "sleep"
    /\ pb = None
    /\ nCalls < MaxEmits
    /\ files # {}
    /\ files \subseteq FilesIn(d, disk)
    /\ loop_pc' = "crashed"
    /\ queue' = EmptyMap
    /\ tasks' = [i \in {j \in DOMAIN tasks : tasks[j].origin = "executor"} |-> tasks[i]]
    /\ UNCHANGED <<config, ledger, pb, staging, final, manual, nTasks, nCalls, lastCall>>
    /\ UNCHANGED <<now, disk, envOps, tracked, groups, obsRun, handoff, emitted,
                   enrichVars, archiveVars, lockVars, stageVars, identVars, watchVars>>

\* Identification or enrichment raises: process_book logs (lines 142-144).
ProcessBookRaises ==
    /\ pb # None
    /\ pb' = None
    /\ UNCHANGED <<config, ledger, queue, tasks, staging, final, manual, nTasks, nCalls, lastCall>>
    /\ UNCHANGED <<disk, envOps, notPipe>>

\* Web UI interception (lines 124-128): the set is queued for review.
ProcessBookQueue(m) ==
    /\ pb # None
    /\ config.WEB_UI_ENABLED
    /\ LET c == pb[1] IN
       /\ queue' = QueueAdd(queue, c.dir, c.files, m, nCalls)
       /\ lastCall' = Some([lastCall[1] EXCEPT
                              !.readd = \E i \in DOMAIN queue : queue[i].dirpath = c.dir])
       /\ ledger' = AddItemLedger(ledger, c.dir, c.files, m, FALSE, disk)
    /\ pb' = None
    /\ UNCHANGED <<config, tasks, staging, final, manual, nTasks, nCalls>>
    /\ UNCHANGED <<disk, envOps, notPipe>>

\* Confidence below the threshold (lines 131-136): move_to_manual, whose
\* failure is logged and swallowed, then the ledger records processed.
ProcessBookManual(m, moved) ==
    /\ pb # None
    /\ ~config.WEB_UI_ENABLED
    /\ m.confidence < config.MATCH_THRESHOLD_PROBABLE
    /\ LET c == pb[1] IN
       /\ IF moved /\ ~DryRun
          THEN /\ manual' = WithKey(manual, Basename(c.dir),
                                                 [files |-> IF c.dir # INPUT_DIR
                                                            THEN FilesIn(c.dir, disk)
                                                            ELSE c.files,
                                                  metadata |-> m])
               /\ disk' = SourceRemoved(disk, c.dir, c.files)
          ELSE UNCHANGED <<manual, disk>>
       /\ ledger' = update_state(ledger, c.dir, c.hash, "processed", c.files, m)
    /\ pb' = None
    /\ UNCHANGED <<config, queue, tasks, staging, final, nTasks, nCalls, lastCall>>
    /\ UNCHANGED <<envOps, notPipe>>

\* Otherwise (line 140) _run_organize is submitted to the executor.
ProcessBookSubmit(m) ==
    /\ pb # None
    /\ ~config.WEB_UI_ENABLED
    /\ ~(m.confidence < config.MATCH_THRESHOLD_PROBABLE)
    /\ nTasks < MaxTasks
    /\ nTasks' = nTasks + 1
    /\ LET c == pb[1] IN
       tasks' = WithKey(tasks, nTasks + 1, NewTask(None, c.dir, c.files, m, nCalls, c.hash, "executor"))
    /\ pb' = None
    /\ UNCHANGED <<config, ledger, queue, staging, final, manual, nCalls, lastCall>>
    /\ UNCHANGED <<disk, envOps, notPipe>>

SetTask(i, t) == [tasks EXCEPT ![i] = t]

\* POST /api/queue/{id}/process: whatever the status of the item, it becomes
\* "processing" and run_organizer is scheduled with the item's dirpath,
\* files and metadata object.
ProcessItem(id) ==
    /\ id \in DOMAIN queue
    /\ nTasks < MaxTasks
    /\ nTasks' = nTasks + 1
    /\ queue' = [queue EXCEPT ![id].status = "processing"]
    /\ tasks' = WithKey(tasks, nTasks + 1,
                        NewTask(id, queue[id].dirpath, queue[id].files, queue[id].metadata,
                                queue[id].obj, None, "api"))
    /\ UNCHANGED <<config, ledger, pb, staging, final, manual, nCalls, lastCall>>
    /\ UNCHANGED <<disk, envOps, notPipe>>

\* QueueManager.update_item without keyword arguments: the ledger record of
\* the item is rewritten with the item's current status.
SyncItem(l, item, dk) ==
    update_state(l, item.dirpath, calculate_hash(item.dirpath, item.files, dk),
                 item.status, item.files, item.metadata)

\* POST /api/queue/{id}/update: the fields are set on the item's metadata
\* object, which a scheduled run_organizer shares, then update_item(id).
UpdateMetadata(id, title) ==
    /\ id \in DOMAIN queue
    /\ LET m == [queue[id].metadata EXCEPT !.title = title]
           item == [queue[id] EXCEPT !.metadata = m]
       IN  /\ queue' = [queue EXCEPT ![id] = item]
           /\ tasks' = [i \in DOMAIN tasks |->
                          IF tasks[i].obj = item.obj
                          THEN [tasks[i] EXCEPT !.meta = m]
                          ELSE tasks[i]]
           /\ ledger' = SyncItem(ledger, item, disk)
    /\ UNCHANGED <<config, pb, staging, final, manual, nTasks, nCalls, lastCall>>
    /\ UNCHANGED <<disk, envOps, notPipe>>

\* QueueManager.mark_processed and mark_ignored.
MarkItem(l, q, id, st, dk) ==
    IF id \in DOMAIN q
    THEN update_state(l, q[id].dirpath, calculate_hash(q[id].dirpath, q[id].files, dk),
                      st, q[id].files, q[id].metadata)
    ELSE l

\* DELETE /api/queue/{id}: mark_ignored, then remove_item.
RemoveItem(id) ==
    /\ id \in DOMAIN queue
    /\ ledger' = MarkItem(ledger, queue, id, "ignored", disk)
    /\ queue' = WithoutKey(queue, id)
    /\ UNCHANGED <<config, pb, tasks, staging, final, manual, nTasks, nCalls, lastCall>>
    /\ UNCHANGED <<disk, envOps, notPipe>>

\* organize, lines 21-51: the destination is computed from the metadata and
\* the staging directory is removed if present and created empty.
OrganizeBegin(i) ==
    /\ tasks[i].pc = "start"
    /\ LET rel == RelPath(tasks[i].meta) IN
       /\ staging' = IF DryRun THEN staging ELSE WithKey(staging, rel, {})
       /\ tasks' = SetTask(i, [tasks[i] EXCEPT !.pc = "copy", !.rel = Some(rel)])
    /\ UNCHANGED <<config, ledger, queue, pb, final, manual, nTasks, nCalls, lastCall>>
    /\ UNCHANGED <<disk, envOps, notPipe>>

\* organize, lines 55-90: the members are copied into the staging directory
\* and metadata.json is written; in a dry run each of these is logged only.  A member or the staging directory that is
\* no longer there, or an I/O failure, raises out of organize, leaving the
\* members copied before it.
OrganizeCopy(i, ioOk) ==
    /\ tasks[i].pc = "copy"
    /\ LET t == tasks[i]
           rel == t.rel[1]
           ok == DryRun \/ (ioOk /\ t.files \subseteq DOMAIN disk /\ rel \in DOMAIN staging)
           copied == t.files \cap DOMAIN disk
       IN  /\ staging' = IF ~DryRun /\ rel \in DOMAIN staging
                         THEN [staging EXCEPT ![rel] = @ \cup copied]
                         ELSE staging
           /\ tasks' = SetTask(i, [t EXCEPT !.pc = IF ok THEN "promote" ELSE "raised"])
    /\ UNCHANGED <<config, ledger, queue, pb, final, manual, nTasks, nCalls, lastCall>>
    /\ UNCHANGED <<disk, envOps, notPipe>>

\* organize, lines 93-135: an existing destination is removed, the staging
\* directory is renamed into place and the source is removed.  The rename
\* fails when the staging directory is gone or the system refuses it; the
\* failure is logged (lines 134-135) and organize returns.
OrganizePromote(i, osOk) ==
    /\ tasks[i].pc = "promote"
    /\ LET t == tasks[i]
           rel == t.rel[1]
           ok == osOk /\ rel \in DOMAIN staging
       IN  IF DryRun
           THEN /\ tasks' = SetTask(i, [t EXCEPT !.pc = "returned"])
                /\ UNCHANGED <<final, staging, disk>>
           ELSE IF ok
           THEN /\ final' = WithKey(final, rel, staging[rel])
                /\ staging' = WithoutKey(staging, rel)
                /\ disk' = SourceRemoved(disk, t.key, t.files)
                /\ tasks' = SetTask(i, [t EXCEPT !.pc = "returned"])
           ELSE /\ final' = WithoutKey(final, rel)
                /\ tasks' = SetTask(i, [t EXCEPT !.pc = "returned", !.promoteFailed = TRUE])
                /\ disk' = SourceAfterFailedRename(disk, t.key, t.files)
                /\ UNCHANGED staging
    /\ UNCHANGED <<config, ledger, queue, pb, manual, nTasks, nCalls, lastCall>>
    /\ UNCHANGED <<envOps, notPipe>>

\* run_organizer after organize returned (lines 148-149): mark_processed,
\* then remove_item.
RunOrganizerSuccess(i) ==
    /\ tasks[i].pc = "returned"
    /\ tasks[i].origin = "api"
    /\ ledger' = MarkItem(ledger, queue, tasks[i].item_id, "processed", disk)
    /\ queue' = WithoutKey(queue, tasks[i].item_id)
    /\ tasks' = WithoutKey(tasks, i)
    /\ UNCHANGED <<config, pb, staging, final, manual, nTasks, nCalls, lastCall>>
    /\ UNCHANGED <<disk, envOps, notPipe>>

\* update_item(id, status="error", error=...): the status is assigned; the
\* assignment of error, which QueueItem does not declare, raises ValueError
\* before the ledger is synchronised.
UpdateItemError(q, id) ==
    IF id \in DOMAIN q THEN [q EXCEPT ![id].status = "error"] ELSE q

\* run_organizer after organize raised (lines 150-152).
RunOrganizerExcept(i) ==
    /\ tasks[i].pc = "raised"
    /\ tasks[i].origin = "api"
    /\ queue' = UpdateItemError(queue, tasks[i].item_id)
    /\ tasks' = WithoutKey(tasks, i)
    /\ UNCHANGED <<config, ledger, pb, staging, final, manual, nTasks, nCalls, lastCall>>
    /\ UNCHANGED <<disk, envOps, notPipe>>

\* _run_organize after organize returned (lines 148-153): the ledger records
\* processed under the hash process_book computed.
RunOrganizeSuccess(i) ==
    /\ tasks[i].pc = "returned"
    /\ tasks[i].origin = "executor"
    /\ ledger' = update_state(ledger, tasks[i].key, tasks[i].hash, "processed",
                              tasks[i].files, tasks[i].meta)
    /\ tasks' = WithoutKey(tasks, i)
    /\ UNCHANGED <<config, queue, pb, staging, final, manual, nTasks, nCalls, lastCall>>
    /\ UNCHANGED <<disk, envOps, notPipe>>

\* _run_organize after organize raised (lines 154-155): it logs.
RunOrganizeExcept(i) ==
    /\ tasks[i].pc = "raised"
    /\ tasks[i].origin = "executor"
    /\ tasks' = WithoutKey(tasks, i)
    /\ UNCHANGED <<config, ledger, queue, pb, staging, final, manual, nTasks, nCalls, lastCall>>
    /\ UNCHANGED <<disk, envOps, notPipe>>

InitPipe ==
    /\ IngestIdle
    /\ EnrichIdle
    /\ ArchiveIdle
    /\ LockIdle
    /\ StageIdle
    /\ IdentIdle
    /\ WatchIdle
    /\ config \in Configs
    /\ ledger = EmptyMap
    /\ queue = EmptyMap
    /\ pb = None
    /\ tasks = EmptyMap
    /\ staging = EmptyMap
    /\ final = EmptyMap
    /\ manual = EmptyMap
    /\ nTasks = 0
    /\ nCalls = 0
    /\ lastCall = None

NextPipe ==
    \/ \E f \in Files, size \in Sizes : WriteFile(f, [NewFileStat EXCEPT !.size = size])
    \/ \E f \in Files : DeleteFile(f)
    \/ \E d \in Dirs, files \in SUBSET Files : ProcessBookCall(d, files)
    \/ \E d \in Dirs, files \in SUBSET Files : ProcessBookLedgerRaises(d, files)
    \/ ProcessBookRaises
    \/ \E m \in Metas : ProcessBookQueue(m)
    \/ \E m \in Metas, moved \in BOOLEAN : ProcessBookManual(m, moved)
    \/ \E m \in Metas : ProcessBookSubmit(m)
    \/ \E id \in DOMAIN queue : ProcessItem(id)
    \/ \E id \in DOMAIN queue, title \in Titles : UpdateMetadata(id, title)
    \/ \E id \in DOMAIN queue : RemoveItem(id)
    \/ \E i \in DOMAIN tasks : OrganizeBegin(i)
    \/ \E i \in DOMAIN tasks, ioOk \in BOOLEAN : OrganizeCopy(i, ioOk)
    \/ \E i \in DOMAIN tasks, osOk \in BOOLEAN : OrganizePromote(i, osOk)
    \/ \E i \in DOMAIN tasks : RunOrganizerSuccess(i)
    \/ \E i \in DOMAIN tasks : RunOrganizerExcept(i)
    \/ \E i \in DOMAIN tasks : RunOrganizeSuccess(i)
    \/ \E i \in DOMAIN tasks : RunOrganizeExcept(i)

SpecPipe == InitPipe /\ [][NextPipe]_vars

\* ---------------------------------------------------------------------------
\* Restart: AutoLibrarian.restore_queue (main.py 50-67)
\* ---------------------------------------------------------------------------

\* The process stops at any point, by a crash or by the operator: the
\* queue, the scheduled and running organize operations and the book in
\* progress are lost with its memory.  The ledger, the input, the staging
\* area, the library and the manual-intervention location stay as they are.
Crash ==
    /\ loop_pc = "sleep"
    /\ loop_pc' = "boot"
    /\ queue' = EmptyMap
    /\ tasks' = EmptyMap
    /\ pb' = None
    /\ UNCHANGED <<config, ledger, staging, final, manual, nTasks, nCalls, lastCall>>
    /\ UNCHANGED <<now, disk, envOps, tracked, groups, obsRun, handoff, emitted,
                   enrichVars, archiveVars, lockVars, stageVars, identVars, watchVars>>

\* HistoryManager.get_all_pending: the directory keys whose record is
\* pending.
get_all_pending(l) == {d \in DOMAIN l : l[d].status = "pending"}

\* The variant of FromHistory that lets add_item synchronise the ledger.
FromHistory_Off == FALSE

\* restore_queue, line 64: add_item is called with from_history=True.
FromHistory == TRUE

\* restore_queue: every pending record is added to the queue with its file
\* list and a metadata object rebuilt from the stored fields.
RestoreQueue ==
    /\ loop_pc = "boot"
    /\ loop_pc' = "sleep"
    /\ LET pending == get_all_pending(ledger) IN
       /\ queue' = [i \in {ItemId(d) : d \in pending} |->
                      LET d == CHOOSE d \in pending : ItemId(d) = i IN
                        QueueAdd(EmptyMap, d, ledger[d].files, ledger[d].metadata, 0)[i]]
       /\ ledger' = [d \in DOMAIN ledger |->
                       IF d \in pending
                       THEN AddItemLedger(ledger, d, ledger[d].files, ledger[d].metadata,
                                          FromHistory, disk)[d]
                       ELSE ledger[d]]
    /\ UNCHANGED <<config, pb, tasks, staging, final, manual, nTasks, nCalls, lastCall>>
    /\ UNCHANGED <<now, disk, envOps, tracked, groups, obsRun, handoff, emitted,
                   enrichVars, archiveVars, lockVars, stageVars, identVars, watchVars>>

\* An installation with the review queue, which is stopped and started
\* again while it works.
InitRestart ==
    /\ IngestIdle
    /\ EnrichIdle
    /\ ArchiveIdle
    /\ LockIdle
    /\ StageIdle
    /\ IdentIdle
    /\ WatchIdle
    /\ PipeIdle

NextRestart ==
    \/ \E f \in Files, size \in Sizes : WriteFile(f, [NewFileStat EXCEPT !.size = size])
    \/ \E d \in Dirs, files \in SUBSET Files : ProcessBookCall(d, files)
    \/ \E m \in Metas : ProcessBookQueue(m)
    \/ \E id \in DOMAIN queue : ProcessItem(id)
    \/ \E id \in DOMAIN queue, title \in Titles : UpdateMetadata(id, title)
    \/ \E id \in DOMAIN queue : RemoveItem(id)
    \/ \E i \in DOMAIN tasks : OrganizeBegin(i)
    \/ \E i \in DOMAIN tasks, ioOk \in BOOLEAN : OrganizeCopy(i, ioOk)
    \/ \E i \in DOMAIN tasks, osOk \in BOOLEAN : OrganizePromote(i, osOk)
    \/ \E i \in DOMAIN tasks : RunOrganizerSuccess(i)
    \/ \E i \in DOMAIN tasks : RunOrganizerExcept(i)
    \/ Crash
    \/ RestoreQueue

SpecRestart == InitRestart /\ [][NextRestart]_vars

\* ---------------------------------------------------------------------------
\* Claims on process_book and organize
\* ---------------------------------------------------------------------------

\* C2: a call of process_book for a key whose ledger record is processed
\* under the hash of the files it is given changes nothing: identification
\* does not start, and the ledger, the queue, the tasks, the staging area,
\* the library and the input are as before.
ClaimC2_ProcessedUnchangedIsNoOp ==
    [][(nCalls' = nCalls + 1 /\ lastCall'[1].processedSame) =>
         /\ pb' = None
         /\ UNCHANGED <<ledger, queue, tasks, nTasks, staging, final, manual, disk>>]_vars

\* process_book has just been called for a key recorded as processed, with
\* files of the recorded hash.
WitnessC2_CalledOnProcessed ==
    /\ lastCall # None
    /\ lastCall[1].processedSame
    /\ ledger[lastCall[1].dir].status = "processed"

\* organize has been entered and has not returned or raised yet.
InFlight(i) == tasks[i].pc \in {"copy", "promote"}

\* C3: no two organize operations of one directory key are in flight at the
\* same time.
ClaimC3_OneOrganizePerKey ==
    \A i \in DOMAIN tasks, j \in DOMAIN tasks :
      (i # j /\ tasks[i].key = tasks[j].key) => ~(InFlight(i) /\ InFlight(j))

\* C4: when run_organizer has handled an organize that raised between the
\* creation of the staging directory and the promote, the item of the key is
\* in the queue with status error and the ledger record of the key is
\* pending.
ClaimC4_FailureKeepsItemAndPending ==
    [][\A i \in DOMAIN tasks :
         (tasks[i].origin = "api" /\ tasks[i].pc = "raised" /\ i \notin DOMAIN tasks') =>
           LET k == tasks[i].key
               id == tasks[i].item_id
           IN
             /\ id \in DOMAIN queue'
             /\ queue'[id].status = "error"
             /\ k \in DOMAIN ledger'
             /\ ledger'[k].status = "pending"]_vars

\* C5: organize never returns normally from a promote step that failed.
ClaimC5_PromoteFailurePropagated ==
    \A i \in DOMAIN tasks : tasks[i].promoteFailed => tasks[i].pc # "returned"

\* The items of the queue q that stand for the directory key d.
ItemsOf(q, d) == {i \in DOMAIN q : q[i].dirpath = d}

\* C14: when add_item is called for a directory key that is already queued,
\* the queue afterwards holds exactly one item of that key, under the id the
\* key had before, and the item holds the files and the metadata object of
\* this call, the metadata being what enrichment returned for it.
ClaimC14_AddItemIdempotent ==
    [][(pb # None /\ lastCall'[1].readd /\ ~lastCall[1].readd) =>
         LET d == pb[1].dir IN
           /\ Cardinality(ItemsOf(queue', d)) = 1
           /\ ItemsOf(queue', d) = ItemsOf(queue, d)
           /\ \A i \in ItemsOf(queue', d) :
                /\ queue'[i].id = i
                /\ queue'[i].files = pb[1].files
                /\ queue'[i].obj = nCalls
                /\ queue'[i].metadata \in Metas
                /\ queue'[i].status = "pending"]_vars

\* add_item has run for a key that was queued, with another file list than
\* the one the item held.
WitnessC14_ReAdded ==
    /\ lastCall # None
    /\ lastCall[1].readd
    /\ nCalls = 2
    /\ \E i \in DOMAIN queue : queue[i].obj = 2 /\ queue[i].files = Files

ClaimC15_LeavesOnSuccessOrRejection ==
    [][/\ \A id \in DOMAIN queue :
            id \notin DOMAIN queue' =>
              LET d == queue[id].dirpath IN
                /\ d \in DOMAIN ledger'
                /\ \/ /\ tasks' = tasks
                      /\ ledger'[d].status = "ignored"
                   \/ /\ \E i \in DOMAIN tasks \ DOMAIN tasks' :
                            /\ tasks[i].item_id = id
                            /\ tasks[i].pc = "returned"
                            /\ ~tasks[i].promoteFailed
                      /\ ledger'[d].status = "processed"
       /\ \A i \in DOMAIN tasks \ DOMAIN tasks' :
            (tasks[i].origin = "api" /\ (tasks[i].pc = "raised" \/ tasks[i].promoteFailed)
               /\ tasks[i].item_id \in DOMAIN queue)
              => tasks[i].item_id \in DOMAIN queue']_vars

\* C16: the promote and cleanup step of organize removes from the input only
\* files of the file list the operation was given, so a file that came into
\* the source directory after the emission stays, and its directory with it.
ClaimC16_RemovesOnlyCapturedFiles ==
    [][\A i \in DOMAIN tasks \cap DOMAIN tasks' :
         (tasks[i].pc = "promote" /\ tasks'[i].pc = "returned") =>
           (DOMAIN disk \ DOMAIN disk') \subseteq tasks[i].files]_vars

\* C18: no organize is scheduled or running for a group whose confidence is
\* below MATCH_THRESHOLD_PROBABLE, and when the ledger records such a group
\* as processed its metadata manifest is in the manual-intervention
\* location.
ClaimC18_LowConfidenceToManual ==
    /\ \A i \in DOMAIN tasks :
         ~(tasks[i].meta.confidence < config.MATCH_THRESHOLD_PROBABLE)
    /\ \A d \in DOMAIN ledger :
         (/\ ledger[d].status = "processed"
          /\ ledger[d].metadata.confidence < config.MATCH_THRESHOLD_PROBABLE)
           => (Basename(d) \in DOMAIN manual
                 /\ manual[Basename(d)].metadata = ledger[d].metadata)

\* C19: no failure while a file or a group is handled ends the main loop:
\* the loop of start is never left by an exception.
ClaimC19_LoopSurvivesFailures == loop_pc # "crashed"

\* C21: a final destination that exists stays in existence through every
\* step, and holds after the step what it held before or the complete file
\* list of an organize that was at its promote step.
ClaimC21_FinalOldOrNew ==
    [][\A rel \in DOMAIN final :
         /\ rel \in DOMAIN final'
         /\ \/ final'[rel] = final[rel]
            \/ \E i \in DOMAIN tasks :
                 tasks[i].pc = "promote" /\ final'[rel] = tasks[i].files]_vars

\* C22: a call of process_book returns without identification exactly when
\* the ledger has a record of the directory key whose hash is the hash of
\* the files of the call and whose status is pending or processed; with any
\* other record, in particular one of another hash whatever its status,
\* identification starts for the files of the call.
ClaimC22_SkipExactlyOnSameHash ==
    [][nCalls' = nCalls + 1 =>
         LET d == lastCall'[1].dir
             files == IF pb' = None THEN lastCall'[1].skipped ELSE pb'[1].files
             same == /\ d \in DOMAIN ledger
                     /\ ledger[d].content_hash = calculate_hash(d, files, disk)
         IN  /\ files # {}
             /\ (pb' = None) <=> (same /\ ledger[d].status \in {"pending", "processed"})
             /\ pb' # None => pb'[1].hash = calculate_hash(d, files, disk)]_vars

\* process_book was called for a key recorded as processed under another
\* hash than that of the files of the call, and identification has started.
WitnessC22_ReprocessedOnChange ==
    /\ pb # None
    /\ pb[1].dir \in DOMAIN ledger
    /\ ledger[pb[1].dir].status = "processed"
    /\ ledger[pb[1].dir].content_hash # pb[1].hash

\* C23: between the handlers, every item of the queue has a ledger record
\* of its directory key with the status and the metadata of the item.
ClaimC23_QueueMirroredInLedger ==
    \A id \in DOMAIN queue :
      LET d == queue[id].dirpath IN
        /\ d \in DOMAIN ledger
        /\ ledger[d].status = queue[id].status
        /\ ledger[d].metadata = queue[id].metadata

\* C24: every ledger record has one of the statuses pending, processed and
\* ignored.
ClaimC24_LedgerStatusVocabulary ==
    \A d \in DOMAIN ledger : ledger[d].status \in {"pending", "processed", "ignored"}

\* C28: when organize has created its staging directory the directory is
\* empty, whatever an earlier attempt left at that path, and when its copy
\* step has succeeded the directory holds the files of this organize and no
\* other.
ClaimC28_StagingRebuiltClean ==
    [][\A i \in DOMAIN tasks \cap DOMAIN tasks' :
         /\ (tasks[i].pc = "start" /\ tasks'[i].pc = "copy") =>
               staging'[tasks'[i].rel[1]] = {}
         /\ (tasks[i].pc = "copy" /\ tasks'[i].pc = "promote") =>
               staging'[tasks[i].rel[1]] = tasks[i].files]_vars

\* ---------------------------------------------------------------------------
\* Archives: IngestionManager.process_file and extract_archive (ingest.py)
\* ---------------------------------------------------------------------------

\* The archive the model follows, the directory extract_archive derives from
\* its name, and the paths its members are extracted to.
Zip == [dir |-> "A", name |-> "book.zip"]

DestDir(f) == "A/book"

Members == {[dir |-> DestDir(Zip), name |-> "1.mp3"], [dir |-> DestDir(Zip), name |-> "notes.txt"]}

\* What a file named book.zip can hold: a zip archive of some members, none
\* included, or bytes that are neither a zip nor a tar archive.
ArchiveContents ==
    {[kind |-> "zip", members |-> ms] : ms \in SUBSET Members}
      \cup {[kind |-> "junk", members |-> {}]}

\* ingest.py line 66
is_archive(f) == Ext(f) = ".zip"

\* ingest.py line 104
is_valid_file(f) == Ext(f) \in ALLOWED_EXTENSIONS

\* process_file, lines 53-63: the path goes to the grouper when it is no
\* archive and its extension is allowed.
GoesToGrouper(f) == ~is_archive(f) /\ is_valid_file(f)

\* extract_archive, line 96: whether os.remove is reached.  It is reached
\* whenever no exception was raised before it, also when neither
\* is_zipfile nor is_tarfile held and nothing was extracted.
\* The variant of RemoveReached that forgets the os.remove.
RemoveReached_Never(content, raised) == FALSE

RemoveReached(content, raised) == ~raised

\* A writer drops the archive into the input tree.
DropArchive(content) ==
    /\ loop_pc = "sleep"
    /\ Zip \notin DOMAIN disk
    /\ envOps.changes < MaxEnvOps
    /\ envOps' = [envOps EXCEPT !.changes = @ + 1]
    /\ disk' = WithKey(disk, Zip, NewFileStat)
    /\ arch' = WithKey(arch, Zip, content)
    /\ UNCHANGED <<now, loop_pc, tracked, groups, obsRun, handoff, emitted, ex_log>>
    /\ UNCHANGED <<enrichVars, pipeVars, lockVars, stageVars, identVars, watchVars>>

\* One call of extract_archive(f): the files it leaves in the input tree and
\* the record of the call.  raised: an exception in makedirs or extractall
\* (a damaged member, a full disk), after the members of written were
\* extracted.
ExtractArchive(f, raised, written) ==
    LET content == arch[f]
        removed == RemoveReached(content, raised)
        out     == IF raised THEN written ELSE content.members
    IN  IF DryRun
        THEN /\ disk' = disk
             /\ arch' = arch
             /\ ex_log' = Append(ex_log, [archive |-> f, at |-> now, dry |-> TRUE,
                                          raised |-> FALSE, extracted |-> {},
                                          removed |-> FALSE])
        ELSE /\ raised => content.kind = "zip" /\ written \subseteq content.members
                            /\ written # content.members
             /\ disk' = [p \in (DOMAIN disk \cup out) \ (IF removed THEN {f} ELSE {}) |->
                           IF p \in out THEN NewFileStat ELSE disk[p]]
             /\ arch' = IF removed THEN WithoutKey(arch, f) ELSE arch
             /\ ex_log' = Append(ex_log, [archive |-> f, at |-> now, dry |-> FALSE,
                                          raised |-> raised, extracted |-> out,
                                          removed |-> removed])

\* Monitor.tick with IngestionManager.process_file as the callback of check:
\* a stable archive is extracted, a stable path of an allowed extension goes
\* to the grouper, any other stable path is dropped.
ArchiveMonitorTick(raised, written) ==
    /\ loop_pc = "monitor"
    /\ CheckTracker({})
    /\ groups' = GrouperAdd(groups, {f \in ToProcess({}) : GoesToGrouper(f)}, now)
    /\ IF Zip \in ToProcess({})
       THEN ExtractArchive(Zip, raised, written)
       ELSE /\ raised = FALSE
            /\ written = {}
            /\ UNCHANGED <<disk, arch, ex_log>>
    /\ envOps' = Discards(envOps)
    /\ loop_pc' = "ingest"
    /\ UNCHANGED <<now, emitted, enrichVars, pipeVars, lockVars, stageVars, identVars, watchVars>>

InitArchive ==
    /\ IngestIdle
    /\ EnrichIdle
    /\ ArchiveIdle
    /\ LockIdle
    /\ StageIdle
    /\ IdentIdle
    /\ WatchIdle
    /\ config \in {[WEB_UI_ENABLED |-> TRUE, MATCH_THRESHOLD_PROBABLE |-> 70, DRY_RUN |-> b] :
                      b \in BOOLEAN}
    /\ ledger = EmptyMap
    /\ queue = EmptyMap
    /\ pb = None
    /\ tasks = EmptyMap
    /\ staging = EmptyMap
    /\ final = EmptyMap
    /\ manual = EmptyMap
    /\ nTasks = 0
    /\ nCalls = 0
    /\ lastCall = None

NextArchive ==
    \/ \E content \in ArchiveContents : DropArchive(content)
    \/ \E f \in {m \in Members : is_valid_file(m)}, size \in Sizes :
          WriteFile(f, [NewFileStat EXCEPT !.size = size])
    \/ \E f \in Members \cup {Zip} : FsEvent(f)
    \/ LoopSleep
    \/ \E raised \in BOOLEAN, written \in SUBSET Members : ArchiveMonitorTick(raised, written)
    \/ IngestTick

SpecArchive == InitArchive /\ [][NextArchive]_vars

\* ---------------------------------------------------------------------------
\* Dry run: the program started with --dry-run (main.py 169-178)
\* ---------------------------------------------------------------------------

\* process_file is handed the stable archive (lines 53-56) and calls
\* extract_archive.
ProcessFileArchive(raised, written) ==
    /\ loop_pc = "sleep"
    /\ Zip \in DOMAIN disk
    /\ Len(ex_log) < MaxExtracts
    /\ ExtractArchive(Zip, raised, written)
    /\ UNCHANGED <<now, loop_pc, envOps, tracked, groups, obsRun, handoff, emitted,
                   enrichVars, pipeVars, lockVars, stageVars, identVars, watchVars>>

InitDryRun ==
    /\ IngestIdle
    /\ EnrichIdle
    /\ ArchiveIdle
    /\ LockIdle
    /\ StageIdle
    /\ IdentIdle
    /\ WatchIdle
    /\ config \in {[c EXCEPT !.DRY_RUN = TRUE] : c \in Configs}
    /\ ledger = EmptyMap
    /\ queue = EmptyMap
    /\ pb = None
    /\ tasks = EmptyMap
    /\ staging = EmptyMap
    /\ final = EmptyMap
    /\ manual = EmptyMap
    /\ nTasks = 0
    /\ nCalls = 0
    /\ lastCall = None

\* In a dry run organize cannot raise, so the handlers of its exceptions
\* have no step.
NextDryRun ==
    \/ \E f \in Files, size \in Sizes : WriteFile(f, [NewFileStat EXCEPT !.size = size])
    \/ \E content \in ArchiveContents : DropArchive(content)
    \/ \E raised \in BOOLEAN, written \in SUBSET Members : ProcessFileArchive(raised, written)
    \/ \E d \in Dirs, files \in SUBSET Files : ProcessBookCall(d, files)
    \/ \E m \in Metas : ProcessBookQueue(m)
    \/ \E m \in Metas, moved \in BOOLEAN : ProcessBookManual(m, moved)
    \/ \E m \in Metas : ProcessBookSubmit(m)
    \/ \E id \in DOMAIN queue : ProcessItem(id)
    \/ \E id \in DOMAIN queue, title \in Titles : UpdateMetadata(id, title)
    \/ \E id \in DOMAIN queue : RemoveItem(id)
    \/ \E i \in DOMAIN tasks : OrganizeBegin(i)
    \/ \E i \in DOMAIN tasks, ioOk \in BOOLEAN : OrganizeCopy(i, ioOk)
    \/ \E i \in DOMAIN tasks, osOk \in BOOLEAN : OrganizePromote(i, osOk)
    \/ \E i \in DOMAIN tasks : RunOrganizerSuccess(i)
    \/ \E i \in DOMAIN tasks : RunOrganizeSuccess(i)

SpecDryRun == InitDryRun /\ [][NextDryRun]_vars

\* C17: with the dry-run flag set, no step of the program changes the input
\* tree, the archives in it, the staging area, the library or the
\* manual-intervention location; only the writers outside the program do.
ClaimC17_DryRunTouchesNothing ==
    [][envOps' = envOps => UNCHANGED <<disk, arch, staging, final, manual>>]_vars

\* In a dry run extract_archive was called for an archive with members and
\* organize has returned for a group, which the ledger records as processed;
\* the archive and the files of the group are where they were and nothing
\* was staged or promoted.
WitnessC17_DryRunOrganized ==
    /\ DryRun
    /\ config.MATCH_THRESHOLD_PROBABLE = 0
    /\ Len(ex_log) > 0
    /\ Zip \in DOMAIN disk
    /\ arch[Zip].members # {}
    /\ \E d \in DOMAIN ledger :
         /\ ledger[d].status = "processed"
         /\ ledger[d].files \subseteq DOMAIN disk
    /\ staging = EmptyMap
    /\ final = EmptyMap

\* ---------------------------------------------------------------------------
\* Claims on archives
\* ---------------------------------------------------------------------------

\* C11: every call of extract_archive that removed the archive raised no
\* exception and extracted at least one member.
ClaimC11_RemovedOnlyAfterExtraction ==
    \A k \in 1..Len(ex_log) :
      ex_log[k].removed => (~ex_log[k].raised /\ ex_log[k].extracted # {})

\* A call of extract_archive has just been logged.
ExtractCall == Len(ex_log') = Len(ex_log) + 1

\* Every path in a group is no archive, has an allowed extension, and was
\* handed over by check after its sample had held for the stability duration.
GroupedAfterDebounce ==
    \A d \in DOMAIN groups : \A f \in groups[d].files :
      /\ GoesToGrouper(f)
      /\ f \in DOMAIN handoff
      /\ handoff[f].at - handoff[f].since >= STABILITY_CHECK_DURATION

\* The call of extract_archive tracks nothing and groups nothing itself: a
\* path that enters a group during the call was handed over by this check.
ExtractTracksNothing ==
    /\ DOMAIN tracked' \subseteq DOMAIN tracked
    /\ \A d \in DOMAIN groups' : \A f \in groups'[d].files :
         (d \in DOMAIN groups /\ f \in groups[d].files) \/ f \in ToProcess({})

\* C12 as stated: after every call of extract_archive for a stable archive
\* the archive is no longer on disk; the members reach the grouper only
\* through the tracker and its debounce.
ClaimC12_Original ==
    /\ [][ExtractCall => (Zip \notin DOMAIN disk' /\ ExtractTracksNothing)]_vars
    /\ []GroupedAfterDebounce

\* C12, amended: after a call of extract_archive that raised nothing, dry-run
\* off, the archive is no longer on disk and its members are; the members
\* reach the grouper only through the tracker and its debounce.
ClaimC12_ExtractedArchiveGone ==
    /\ [][ExtractCall =>
            LET r == ex_log'[Len(ex_log')] IN
              /\ (~r.dry /\ ~r.raised) =>
                   (Zip \notin DOMAIN disk' /\ r.extracted \subseteq DOMAIN disk')
              /\ ExtractTracksNothing]_vars
    /\ []GroupedAfterDebounce

\* An archive was extracted and removed, and a member of an allowed extension
\* has since been tracked, found stable and put in its group.
WitnessC12_MemberGroupedAfterExtraction ==
    \E k \in 1..Len(ex_log), m \in Members :
      /\ ex_log[k].removed
      /\ m \in ex_log[k].extracted
      /\ Zip \notin DOMAIN disk
      /\ DestDir(Zip) \in DOMAIN groups
      /\ m \in groups[DestDir(Zip)].files
      /\ handoff[m].since >= ex_log[k].at

\* ---------------------------------------------------------------------------
\* Claims on the isolation of provider failures
\* ---------------------------------------------------------------------------

\* C26: no step of enrich leaves a field of the running result empty that
\* was populated before it.
ClaimC26_NoFieldEmptied ==
    [][/\ ~Falsy(best_match.title) => ~Falsy(best_match'.title)
       /\ ~Falsy(best_match.author) => ~Falsy(best_match'.author)
       /\ ~Falsy(best_match.year) => ~Falsy(best_match'.year)
       /\ ~Falsy(best_match.description) => ~Falsy(best_match'.description)]_vars

\* C20: enrich is never aborted by a failure in the search or in the scoring
\* of one provider's candidates.
ClaimC20_ProviderFailureIsolated == en_pc # "raised"

\* ---------------------------------------------------------------------------
\* The lock of the QueueManager (queue_manager.py) and the handlers of
\* web/api.py that use the items it hands out
\* ---------------------------------------------------------------------------

\* The directory key and the files of the group the handlers work on.
LockDir == "A"

LockFiles == {[dir |-> "A", name |-> "1.mp3"]}

\* The sections a handler runs inside "with self._lock", and the statements
\* it runs on an item after get_item has returned it.
LockedSections == {"add", "get_u", "upd", "get_p", "mark_p", "mark_i", "rm", "err"}

UnlockedWrites == {"setattr", "setstatus"}

\* A thread enters a handler: add_item from process_book on the loop
\* thread; update_metadata, process_item, remove_item and the two ends of
\* run_organizer on a worker of the web server.
LockBegin(t, pc, title) ==
    /\ th[t].pc = "idle"
    /\ IF t = "loop"
       THEN pc = "add" /\ nCalls < MaxEmits /\ title = ""
       ELSE /\ pc \in {"get_u", "get_p", "mark_p", "mark_i", "err"}
            /\ (pc = "get_u") = (title \in Titles)
            /\ pc # "get_u" => title = ""
    /\ nCalls' = IF pc = "add" THEN nCalls + 1 ELSE nCalls
    /\ th' = [th EXCEPT ![t] = [pc |-> pc, id |-> Some(ItemId(LockDir)), ref |-> 0,
                                title |-> title]]
    /\ UNCHANGED <<config, ledger, queue, pb, tasks, staging, final, manual, nTasks, lastCall>>
    /\ UNCHANGED <<lock, ingestVars, enrichVars, archiveVars, stageVars, identVars, watchVars>>

\* with self._lock: the thread waits until the lock is free and takes it.
LockAcquire(t) ==
    /\ th[t].pc \in LockedSections
    /\ lock = None
    /\ lock' = Some(t)
    /\ UNCHANGED <<th, ingestVars, enrichVars, pipeVars, archiveVars, stageVars, identVars, watchVars>>

\* The item the handler of t refers to is still the one in the queue.
StillQueued(t) ==
    /\ th[t].id[1] \in DOMAIN queue
    /\ queue[th[t].id[1]].obj = th[t].ref

\* The body of the section the thread is in, and the release of the lock at
\* the end of the with block.
LockSection(t) ==
    LET id == th[t].id[1]
        pc == th[t].pc
        to(next) == th' = [th EXCEPT ![t] = [ThreadIdle EXCEPT !.pc = next, !.id = th[t].id,
                                                               !.ref = th[t].ref,
                                                               !.title = th[t].title]]
        done == th' = [th EXCEPT ![t] = ThreadIdle]
    IN  /\ lock = Some(t)
        /\ lock' = None
        /\ CASE pc = "add" ->
                 \* add_item, lines 54-68
                 /\ queue' = QueueAdd(queue, LockDir, LockFiles, CHOOSE m \in Metas : TRUE, nCalls)
                 /\ ledger' = AddItemLedger(ledger, LockDir, LockFiles,
                                            CHOOSE m \in Metas : TRUE, FALSE, disk)
                 /\ done
            [] pc \in {"get_u", "get_p"} ->
                 \* get_item, lines 76-78; the handler answers 404 without item
                 /\ IF id \in DOMAIN queue
                    THEN th' = [th EXCEPT ![t].pc = IF pc = "get_u" THEN "setattr"
                                                                   ELSE "setstatus",
                                          ![t].ref = queue[id].obj]
                    ELSE done
                 /\ UNCHANGED <<queue, ledger>>
            [] pc = "upd" ->
                 \* update_item(item_id), lines 96-109
                 /\ ledger' = IF id \in DOMAIN queue
                               THEN SyncItem(ledger, queue[id], disk)
                               ELSE ledger
                 /\ queue' = queue
                 /\ done
            [] pc \in {"mark_p", "mark_i"} ->
                 \* mark_processed, mark_ignored, lines 80-94
                 LET st == IF pc = "mark_p" THEN "processed" ELSE "ignored" IN
                   /\ ledger' = MarkItem(ledger, queue, id, st, disk)
                   /\ queue' = IF id \in DOMAIN queue
                                THEN [queue EXCEPT ![id].status = st]
                                ELSE queue
                   /\ to("rm")
            [] pc = "rm" ->
                 \* remove_item, lines 111-115
                 /\ queue' = WithoutKey(queue, id)
                 /\ ledger' = ledger
                 /\ done
            [] pc = "err" ->
                 \* update_item(item_id, status="error", error=...)
                 /\ queue' = UpdateItemError(queue, id)
                 /\ ledger' = ledger
                 /\ done
        /\ UNCHANGED <<config, pb, tasks, staging, final, manual, nTasks, nCalls, lastCall>>
        /\ UNCHANGED <<ingestVars, enrichVars, archiveVars, stageVars, identVars, watchVars>>

\* The statements of update_metadata (web/api.py 107-110) and process_item
\* (line 140) that assign to the item get_item returned.  They take no
\* lock.  When add_item has replaced the item meanwhile the assignment goes
\* to the old object.
LockFreeWrite(t) ==
    /\ th[t].pc \in UnlockedWrites
    /\ LET id == th[t].id[1] IN
       IF th[t].pc = "setattr"
       THEN /\ queue' = IF StillQueued(t)
                         THEN [queue EXCEPT ![id].metadata.title = th[t].title]
                         ELSE queue
            /\ th' = [th EXCEPT ![t].pc = "upd"]
       ELSE /\ queue' = IF StillQueued(t)
                         THEN [queue EXCEPT ![id].status = "processing"]
                         ELSE queue
            /\ th' = [th EXCEPT ![t] = ThreadIdle]
    /\ UNCHANGED <<config, ledger, pb, tasks, staging, final, manual, nTasks, nCalls, lastCall>>
    /\ UNCHANGED <<lock, ingestVars, enrichVars, archiveVars, stageVars, identVars, watchVars>>

InitLock ==
    /\ IngestIdle
    /\ EnrichIdle
    /\ PipeIdle
    /\ ArchiveIdle
    /\ LockIdle
    /\ StageIdle
    /\ IdentIdle
    /\ WatchIdle

NextLock ==
    \/ \E t \in Threads, pc \in LockedSections, title \in Titles \cup {""} : LockBegin(t, pc, title)
    \/ \E t \in Threads : LockAcquire(t)
    \/ \E t \in Threads : LockSection(t)
    \/ \E t \in Threads : LockFreeWrite(t)

SpecLock == InitLock /\ [][NextLock]_vars

\* C25: every step that changes the queue map or the status or metadata of
\* an item in it is taken by the thread that holds the lock, which it
\* releases at the end of the step.
ClaimC25_QueueChangedUnderLock ==
    [][queue' # queue => (lock # None /\ lock' = None)]_vars

\* ---------------------------------------------------------------------
\* The names of the staged files (organizer.py, organize, the copy loop).
\* Names and titles are sequences of code points, so that sorted(), splitext
\* and the format of the track number are computed as Python computes them.
\* ---------------------------------------------------------------------

\* The largest track number among the file names a group is drawn from.
MaxTracks == 11

\* A group of a hundred and one tracks: its last two positions are 100 and 101.
LongGroupSize == 101

\* The decimal digits of n, most significant first (str(n)).
RECURSIVE Digits(_)
Digits(n) == IF n < 10 THEN <<48 + n>> ELSE Digits(n \div 10) \o <<48 + (n % 10)>>

\* ".mp3"
DotMp3 == <<46, 109, 112, 51>>

\* "k.mp3": the file names of a book ripped one file per track.
TrackName(k) == Digits(k) \o DotMp3

\* "cover" (no extension), ".hidden" (a leading dot is no extension),
\* "a.tar.gz" (the extension is what follows the last dot) and "B.M4B".
Extras ==
    { <<99, 111, 118, 101, 114>>,
      <<46, 104, 105, 100, 100, 101, 110>>,
      <<97, 46, 116, 97, 114, 46, 103, 122>>,
      <<66, 46, 77, 52, 66>> }

\* "Dune", "Dune: II" (a subtitle after a colon), " Emma/1 " and the empty
\* title.
StageTitles ==
    { <<68, 117, 110, 101>>,
      <<68, 117, 110, 101, 58, 32, 73, 73>>,
      <<32, 69, 109, 109, 97, 47, 49, 32>>,
      <<>> }

\* "Unknown Title"
UnknownTitle == <<85, 110, 107, 110, 111, 119, 110, 32, 84, 105, 116, 108, 101>>

\* str.isalnum on one code point of the ASCII range.
IsAlnum(c) == (c >= 48 /\ c <= 57) \/ (c >= 65 /\ c <= 90) \/ (c >= 97 /\ c <= 122)

\* str.strip(): white space removed at both ends.
RECURSIVE Strip(_)
Strip(t) ==
    IF t = <<>> THEN t
    ELSE IF Head(t) = 32 THEN Strip(Tail(t))
    ELSE IF t[Len(t)] = 32 THEN Strip(SubSeq(t, 1, Len(t) - 1))
    ELSE t

\* _sanitize: keeps the letters, the digits and ' ', '-', '_', '.', then
\* strips.
_sanitize(name) == Strip(SelectSeq(name, LAMBDA c : IsAlnum(c) \/ c \in {32, 45, 95, 46}))

\* context['title'] of organize: _sanitize(metadata.title or "Unknown Title").
ContextTitle(title) == _sanitize(IF title = <<>> THEN UnknownTitle ELSE title)

\* os.path.splitext(filename)[1]: what starts at the last dot, provided a
\* character that is not a dot precedes it.
SplitExt(name) ==
    LET dots == {p \in 1..Len(name) : name[p] = 46}
    IN  IF dots = {} THEN <<>>
        ELSE LET p == CHOOSE q \in dots : \A r \in dots : r <= q
             IN  IF \E q \in 1..(p - 1) : name[q] # 46
                 THEN SubSeq(name, p, Len(name))
                 ELSE <<>>

\* a < b for Python strings: code point by code point, a proper prefix first.
RECURSIVE StrLess(_, _)
StrLess(a, b) ==
    IF b = <<>> THEN FALSE
    ELSE IF a = <<>> THEN TRUE
    ELSE IF Head(a) # Head(b) THEN Head(a) < Head(b)
    ELSE StrLess(Tail(a), Tail(b))

\* sorted(files): the files of one group share their directory, so the order
\* of the paths is the order of the base names.
RECURSIVE sorted(_)
sorted(S) ==
    IF S = {} THEN <<>>
    ELSE LET m == CHOOSE x \in S : \A y \in S \ {x} : StrLess(x, y)
         IN  <<m>> \o sorted(S \ {m})

\* The number enumerate(sorted(files)) leads to, counted from 0, where the
\* name would have to use i + 1.
EnumIndex_ZeroBased(i) == i - 1

\* The number formatted into the name of the file at position i of the sorted
\* list (positions from 1 here, enumerate's i from 0 in the source): i + 1 of
\* the source.
EnumIndex(i) == i

\* f"{n:02d}": the decimal digits, padded with zeros on the left to a width
\* of two.
Format02d(n) == IF n < 10 THEN <<48>> \o Digits(n) ELSE Digits(n)

\* " - "
Dash == <<32, 45, 32>>

\* new_filename of the copy loop.
NewFilename(title, i, ext, count) ==
    IF count > 1
    THEN ContextTitle(title) \o Dash \o Format02d(EnumIndex(i)) \o ext
    ELSE ContextTitle(title) \o ext

\* The copy loop: each file of sorted(files) and the name it is copied to.
StagedNames(title, files) ==
    LET order == sorted(files)
    IN  [f \in files |->
            LET i == CHOOSE k \in 1..Len(order) : order[k] = f
            IN  NewFilename(title, i, SplitExt(f), Cardinality(files))]

\* The groups organize is called with: any tracks of a book with any of the
\* other files, and one long book.
StageGroups ==
    { {TrackName(k) : k \in S} \cup E : S \in SUBSET (1..MaxTracks), E \in SUBSET Extras }
        \cup { {TrackName(k) : k \in 1..LongGroupSize} }

\* organize reaches its copy loop with a title and a group of files.
StageBegin ==
    /\ st_pc = "idle"
    /\ \E title \in StageTitles, files \in StageGroups \ {{}} :
        /\ st_title' = title
        /\ st_files' = files
    /\ st_pc' = "call"
    /\ UNCHANGED <<st_out, ingestVars, enrichVars, pipeVars, archiveVars, lockVars, identVars, watchVars>>

\* The copy loop runs.
StageCopy ==
    /\ st_pc = "call"
    /\ st_out' = StagedNames(st_title, st_files)
    /\ st_pc' = "staged"
    /\ UNCHANGED <<st_title, st_files, ingestVars, enrichVars, pipeVars, archiveVars, lockVars, identVars, watchVars>>

InitStage ==
    /\ IngestIdle
    /\ EnrichIdle
    /\ PipeIdle
    /\ ArchiveIdle
    /\ LockIdle
    /\ StageIdle
    /\ IdentIdle
    /\ WatchIdle

NextStage == StageBegin \/ StageCopy

SpecStage == InitStage /\ [][NextStage]_vars

\* The position of f in the order of the original file names, counted from 1.
RankOf(f, files) == Cardinality({g \in files : StrLess(g, f)}) + 1

\* The number n written with exactly two digits.
TwoDigits(n) == <<48 + ((n \div 10) % 10), 48 + (n % 10)>>

\* The number n written with two digits, or with all its digits from 100 on.
AtLeastTwoDigits(n) == IF n < 100 THEN TwoDigits(n) ELSE Digits(n)

\* C29 as the specification words it: with more than one file, the i-th file
\* in sorted order of the original file names is staged as the title, " - ",
\* i as two zero-padded digits counted from 1, and its extension; a single
\* file is staged as the title and its extension.
OriginalC29_TitleAndTwoDigits ==
    st_pc = "staged" =>
        \A f \in st_files :
            st_out[f] =
                IF Cardinality(st_files) > 1
                THEN st_title \o Dash \o TwoDigits(RankOf(f, st_files)) \o SplitExt(f)
                ELSE st_title \o SplitExt(f)

\* C29, amended: the name is built from the title as organize sanitizes it
\* ("Unknown Title" for an empty one), and the number has two digits up to 99
\* and all its digits from 100 on; the rest as worded.
ClaimC29_StagedNames ==
    st_pc = "staged" =>
        \A f \in st_files :
            st_out[f] =
                IF Cardinality(st_files) > 1
                THEN ContextTitle(st_title) \o Dash
                        \o AtLeastTwoDigits(RankOf(f, st_files)) \o SplitExt(f)
                ELSE ContextTitle(st_title) \o SplitExt(f)

\* A group of ten tracks or more has been staged, where the sorted order of
\* the names is not the order of the track numbers: "10.mp3" is second, after
\* "1.mp3", under "Dune - 02.mp3".
WitnessC29_TenthTrackSecond ==
    /\ st_pc = "staged"
    /\ st_title = <<68, 117, 110, 101>>
    /\ {TrackName(1), TrackName(2), TrackName(10)} \subseteq st_files
    /\ st_out[TrackName(10)] = <<68, 117, 110, 101>> \o Dash \o <<48, 50>> \o DotMp3


\* ---------------------------------------------------------------------
\* Further properties of the tracker with archives (SpecArchive).
\* ---------------------------------------------------------------------

\* The paths whose extension is neither allowed nor that of an archive.
OtherExtension(f) == Ext(f) \notin ALLOWED_EXTENSIONS \cup {".zip"}

\* C31: a path is tracked only if its extension is allowed or that of an
\* archive; a path of any other extension is never tracked, never handed to
\* process_file, never extracted as an archive and never a member of a group
\* or of an emission.
ClaimC31_OnlyAllowedTracked ==
    /\ \A f \in DOMAIN tracked : ~OtherExtension(f)
    /\ \A f \in DOMAIN handoff : ~OtherExtension(f)
    /\ \A d \in DOMAIN groups : \A f \in groups[d].files : ~OtherExtension(f)
    /\ \A e \in emitted : \A f \in e.files : ~OtherExtension(f)
    /\ \A k \in 1..Len(ex_log) : ~OtherExtension(ex_log[k].archive)

\* notes.txt and 1.mp3 were extracted from the archive together; 1.mp3 has
\* been tracked, debounced and grouped, and notes.txt, still on disk, has left
\* no trace in the tracker.
WitnessC31_TextFileLeftAlone ==
    \E f \in DOMAIN disk, g \in DOMAIN disk :
        /\ OtherExtension(f)
        /\ f.dir = g.dir
        /\ g \in DOMAIN handoff
        /\ f \notin DOMAIN tracked


\* ---------------------------------------------------------------------
\* Further properties of the stability tracker (SpecIngest).
\* ---------------------------------------------------------------------

\* C32: a check removes from the tracker every tracked path that does not
\* exist and hands none of them to the callback; a path handed over after
\* such a check was observed again after it and held one sample for the
\* debounce since.
ClaimC32_GonePathDiscarded ==
    /\ [][(loop_pc = "monitor" /\ loop_pc' = "ingest") =>
            \A f \in DOMAIN tracked \ DOMAIN disk :
                /\ f \notin DOMAIN tracked'
                /\ f \in DOMAIN handoff' => (f \in DOMAIN handoff /\ handoff'[f] = handoff[f])]_vars
    /\ [](\A f \in DOMAIN handoff \cap DOMAIN envOps.dropped :
            handoff[f].at >= envOps.dropped[f] =>
                /\ handoff[f].since > envOps.dropped[f]
                /\ handoff[f].at - handoff[f].since >= STABILITY_CHECK_DURATION)

\* A path was discarded by a check, created and observed again, and handed
\* over after a new debounce.
WitnessC32_HandedOverAfterReturn ==
    \E f \in DOMAIN handoff \cap DOMAIN envOps.dropped :
        handoff[f].at > envOps.dropped[f]


\* ---------------------------------------------------------------------
\* Identifier.identify (identifier.py).  A result is the record of the
\* IdentificationResult fields _merge_results reads or writes.
\* ---------------------------------------------------------------------

\* How many files the group handed to identify holds.
MaxIdFiles == 3

\* IdentificationResult(): every field at its default.
IdentificationResult ==
    [title |-> Null, author |-> Null, year |-> Null, asin |-> Null,
     narrator |-> Null, source |-> "unknown"]

\* What _extract_from_tags returns for the audio files of the model: nothing
\* read (mutagen.File gave None, or raised at once), a title alone, an author
\* and a year alone, a title made of blanks (stripped to "") beside an author,
\* and two complete sets of tags.
TagReads ==
    { [IdentificationResult EXCEPT !.source = "tags"],
      [IdentificationResult EXCEPT !.source = "tags", !.title = "Dune"],
      [IdentificationResult EXCEPT !.source = "tags", !.author = "Frank Herbert",
                                   !.year = "1965"],
      [IdentificationResult EXCEPT !.source = "tags", !.title = "",
                                   !.author = "Jane Austen", !.narrator = "Juliet"],
      [IdentificationResult EXCEPT !.source = "tags", !.title = "Dune",
                                   !.author = "Frank Herbert", !.asin = "B00DUNE"],
      [IdentificationResult EXCEPT !.source = "tags", !.title = "Emma",
                                   !.author = "Jane Austen", !.year = "1815"] }

\* The files of a group: audio files with their tags, and a cover image.
IdFiles ==
    {[ext |-> ".mp3", tags |-> t] : t \in TagReads}
        \cup {[ext |-> ".jpg", tags |-> IdentificationResult]}

\* What _extract_from_string returns: "Author - Title", a title alone, and
\* the empty title of a name made of noise only.  It never sets a year.
FilenameResults ==
    { [IdentificationResult EXCEPT !.source = "filename", !.title = "Dune Messiah",
                                   !.author = "Herbert"],
      [IdentificationResult EXCEPT !.source = "filename", !.title = "Dune Messiah"],
      [IdentificationResult EXCEPT !.source = "filename", !.title = ""] }

\* identifier.py lines 86-88
_is_audio(f) == f.ext \in {".mp3", ".m4b", ".m4a", ".flac", ".opus", ".wma"}

\* Line 60: the test that ends the loop over the files.
HasTitleAndAuthor(r) == ~Falsy(r.title) /\ ~Falsy(r.author)

\* The variant of _merge_results that prefers the values of the file name.
_merge_results_FilenameFirst(tags, filename) ==
    [title    |-> IF ~Falsy(filename.title) THEN filename.title ELSE tags.title,
     author   |-> IF ~Falsy(filename.author) THEN filename.author ELSE tags.author,
     year     |-> IF ~Falsy(filename.year) THEN filename.year ELSE tags.year,
     asin     |-> tags.asin,
     narrator |-> tags.narrator,
     source   |-> "merged"]

\* identifier.py lines 185-196
_merge_results(tags, filename) ==
    [title    |-> IF ~Falsy(tags.title) THEN tags.title ELSE filename.title,
     author   |-> IF ~Falsy(tags.author) THEN tags.author ELSE filename.author,
     year     |-> IF ~Falsy(tags.year) THEN tags.year ELSE filename.year,
     asin     |-> tags.asin,
     narrator |-> tags.narrator,
     source   |-> "merged"]

\* identify is called with a group (lines 51-56).
IdentifyBegin ==
    /\ id_pc = "idle"
    /\ \E files \in SeqsUpTo(IdFiles, MaxIdFiles) \ {<<>>} : id_files' = files
    /\ tag_result' = IdentificationResult
    /\ id_k' = 1
    /\ id_pc' = "tags"
    /\ UNCHANGED <<filename_result, final_result>>
    /\ UNCHANGED <<ingestVars, enrichVars, pipeVars, archiveVars, lockVars, stageVars, watchVars>>

\* One iteration of the loop of lines 57-61.
IdentifyTags ==
    /\ id_pc = "tags"
    /\ id_k <= Len(id_files)
    /\ LET f == id_files[id_k]
       IN  IF _is_audio(f)
           THEN /\ tag_result' = f.tags
                /\ IF HasTitleAndAuthor(f.tags)
                   THEN id_pc' = "parse" /\ UNCHANGED id_k
                   ELSE id_k' = id_k + 1 /\ UNCHANGED id_pc
           ELSE /\ id_k' = id_k + 1
                /\ UNCHANGED <<tag_result, id_pc>>
    /\ UNCHANGED <<id_files, filename_result, final_result>>
    /\ UNCHANGED <<ingestVars, enrichVars, pipeVars, archiveVars, lockVars, stageVars, watchVars>>

\* Lines 75-79, after the break or the end of the loop.
IdentifyParse ==
    /\ id_pc = "parse" \/ (id_pc = "tags" /\ id_k > Len(id_files))
    /\ \E r \in FilenameResults : filename_result' = r
    /\ id_pc' = "merge"
    /\ UNCHANGED <<id_files, id_k, tag_result, final_result>>
    /\ UNCHANGED <<ingestVars, enrichVars, pipeVars, archiveVars, lockVars, stageVars, watchVars>>

\* Lines 82-84.
IdentifyMerge ==
    /\ id_pc = "merge"
    /\ final_result' = _merge_results(tag_result, filename_result)
    /\ id_pc' = "done"
    /\ UNCHANGED <<id_files, id_k, tag_result, filename_result>>
    /\ UNCHANGED <<ingestVars, enrichVars, pipeVars, archiveVars, lockVars, stageVars, watchVars>>

InitIdentify ==
    /\ IngestIdle
    /\ EnrichIdle
    /\ PipeIdle
    /\ ArchiveIdle
    /\ LockIdle
    /\ StageIdle
    /\ IdentIdle
    /\ WatchIdle

NextIdentify == IdentifyBegin \/ IdentifyTags \/ IdentifyParse \/ IdentifyMerge

SpecIdentify == InitIdentify /\ [][NextIdentify]_vars

\* C33: in the merged result title, author and year are the value of the
\* tags when that is not empty and the value of the file name otherwise, the
\* ASIN is that of the tags, and the source is "merged".
ClaimC33_TagsWinFilenameFills ==
    id_pc = "done" =>
        /\ final_result.title = IF tag_result.title \notin {Null, ""}
                                THEN tag_result.title ELSE filename_result.title
        /\ final_result.author = IF tag_result.author \notin {Null, ""}
                                 THEN tag_result.author ELSE filename_result.author
        /\ final_result.year = IF tag_result.year \notin {Null, ""}
                               THEN tag_result.year ELSE filename_result.year
        /\ final_result.asin = tag_result.asin
        /\ final_result.source = "merged"

\* A merge where the tags gave the author and the year and the file name gave
\* the title and another author.
WitnessC33_FilenameFillsTitle ==
    /\ id_pc = "done"
    /\ tag_result.title \in {Null, ""}
    /\ tag_result.author \notin {Null, ""}
    /\ filename_result.author \notin {Null, ""}
    /\ filename_result.author # tag_result.author
    /\ final_result.title = filename_result.title
    /\ final_result.title # ""

\* The positions of the audio files whose tags give a title and an author.
Complete == {k \in 1..Len(id_files) :
                /\ id_files[k].ext = ".mp3"
                /\ id_files[k].tags.title \notin {Null, ""}
                /\ id_files[k].tags.author \notin {Null, ""}}

\* The positions of the audio files whose tags give any value at all.
Partial == {k \in 1..Len(id_files) :
                /\ id_files[k].ext = ".mp3"
                /\ \E fld \in {"title", "author", "year", "asin", "narrator"} :
                      id_files[k].tags[fld] \notin {Null, ""}}

\* Min of a finite non-empty set of integers.
Min(S) == CHOOSE x \in S : \A y \in S : x <= y

\* C34, first half: the loop stops at the first audio file whose tags give a
\* title and an author, and that file's tags are the tag result.
StopsAtFirstComplete ==
    (id_pc \in {"merge", "done"} /\ Complete # {}) =>
        /\ id_k = Min(Complete)
        /\ tag_result = id_files[Min(Complete)].tags

\* C34: tag extraction stops at the first audio file giving both a title and
\* an author; when no file gives both, the tag result is the first partial
\* result that is not empty.
ClaimC34_FirstPartialKept ==
    /\ StopsAtFirstComplete
    /\ (id_pc \in {"merge", "done"} /\ Complete = {} /\ Partial # {}) =>
          tag_result = id_files[Min(Partial)].tags


\* ---------------------------------------------------------------------
\* Further properties of the pipeline (SpecPipe).
\* ---------------------------------------------------------------------

\* The paths a content hash was computed over.
HashedPaths(h) == {p[1] : p \in h}

\* C35: when an organize that returned is followed by the ledger record of
\* its key being written as processed, the record holds the file list that
\* organize was given and a hash over that list.
ClaimC35_ProcessedRecordOfOrganizedFiles ==
    [][\A i \in DOMAIN tasks :
          (tasks[i].pc = "returned" /\ i \notin DOMAIN tasks' /\ ledger' # ledger
             /\ tasks[i].key \in DOMAIN ledger'
             /\ ledger'[tasks[i].key].status = "processed")
          => /\ ledger'[tasks[i].key].files = tasks[i].files
             /\ HashedPaths(ledger'[tasks[i].key].content_hash) = tasks[i].files]_vars


\* C36: a step of organize removes a path from the input tree only when it
\* is the step that renames the staging directory to the final destination;
\* a step that raises, and a promote whose rename fails, leave every file of
\* the input tree in place.
ClaimC36_SourceRemovedAfterRename ==
    [][\A i \in DOMAIN tasks \cap DOMAIN tasks' :
          tasks'[i].pc # tasks[i].pc =>
            /\ (DOMAIN disk \ DOMAIN disk' # {}) =>
                  /\ tasks[i].pc = "promote"
                  /\ ~tasks'[i].promoteFailed
                  /\ tasks[i].rel[1] \in DOMAIN final'
                  /\ final'[tasks[i].rel[1]] = staging[tasks[i].rel[1]]
                  /\ tasks[i].rel[1] \notin DOMAIN staging'
            /\ (tasks'[i].pc = "raised" \/ tasks'[i].promoteFailed) => disk' = disk]_vars

\* An organize whose rename failed has returned, and every file it was given
\* is still in the input tree.
WitnessC36_RenameFailedSourceKept ==
    \E i \in DOMAIN tasks :
        /\ tasks[i].pc = "returned"
        /\ tasks[i].promoteFailed
        /\ tasks[i].files # {}
        /\ tasks[i].files \subseteq DOMAIN disk


\* ---------------------------------------------------------------------
\* Two groups: the pipeline of SpecPipe with two source directories of the
\* same base name, each holding one file, identified with the same metadata.
\* ---------------------------------------------------------------------

TwoKeyFiles == {[dir |-> "x/Book", name |-> "1.mp3"], [dir |-> "y/Book", name |-> "1.mp3"]}

TwoKeyDirs == {Dirname(f) : f \in TwoKeyFiles}

NextTwoKeys ==
    \/ \E f \in TwoKeyFiles : WriteFile(f, NewFileStat)
    \/ \E d \in TwoKeyDirs, files \in SUBSET TwoKeyFiles : ProcessBookCall(d, files)
    \/ ProcessBookRaises
    \/ \E m \in Metas : ProcessBookQueue(m)
    \/ \E m \in Metas, moved \in BOOLEAN : ProcessBookManual(m, moved)
    \/ \E m \in Metas : ProcessBookSubmit(m)
    \/ \E id \in DOMAIN queue : ProcessItem(id)
    \/ \E id \in DOMAIN queue, title \in Titles : UpdateMetadata(id, title)
    \/ \E id \in DOMAIN queue : RemoveItem(id)
    \/ \E i \in DOMAIN tasks : OrganizeBegin(i)
    \/ \E i \in DOMAIN tasks, ioOk \in BOOLEAN : OrganizeCopy(i, ioOk)
    \/ \E i \in DOMAIN tasks, osOk \in BOOLEAN : OrganizePromote(i, osOk)
    \/ \E i \in DOMAIN tasks : RunOrganizerSuccess(i)
    \/ \E i \in DOMAIN tasks : RunOrganizerExcept(i)
    \/ \E i \in DOMAIN tasks : RunOrganizeSuccess(i)
    \/ \E i \in DOMAIN tasks : RunOrganizeExcept(i)

SpecTwoKeys == InitPipe /\ [][NextTwoKeys]_vars

\* The directory keys whose step this is: an organize that moves on, or a
\* process_book that moves its group to manual intervention.
ActingKeys ==
    {tasks[i].key : i \in {j \in DOMAIN tasks \cap DOMAIN tasks' : tasks'[j].pc # tasks[j].pc}}
        \cup (IF pb # None /\ pb' = None /\ manual' # manual THEN {pb[1].dir} ELSE {})

\* The files of fs all come from source directories other than d.
OfOtherKey(fs, d) == fs # {} /\ \A f \in fs : Dirname(f) # d

\* C37: a step of organize or of move_to_manual for one directory key leaves
\* every staged, final and manual-intervention output made of the files of
\* another key as it was.
ClaimC37_OtherKeysOutputKept ==
    [][\A d \in ActingKeys :
          /\ \A r \in DOMAIN staging : OfOtherKey(staging[r], d) =>
                (r \in DOMAIN staging' /\ staging'[r] = staging[r])
          /\ \A r \in DOMAIN final : OfOtherKey(final[r], d) =>
                (r \in DOMAIN final' /\ final'[r] = final[r])
          /\ \A b \in DOMAIN manual : OfOtherKey(manual[b].files, d) =>
                (b \in DOMAIN manual' /\ manual'[b] = manual[b])]_vars


\* C38: process_book does not skip a group whose ledger record is ignored,
\* also when the hash is unchanged; with the review UI enabled a process_book
\* that ends without an exception has put the group in the queue as pending
\* and overwritten the ledger record with pending.
ClaimC38_IgnoredIsProcessedAgain ==
    /\ [][(nCalls' = nCalls + 1 /\ lastCall'[1].dir \in DOMAIN ledger
             /\ ledger[lastCall'[1].dir].status = "ignored")
          => (pb' # None /\ pb'[1].dir = lastCall'[1].dir)]_vars
    /\ [][(pb # None /\ pb' = None /\ config.WEB_UI_ENABLED
             /\ pb[1].dir \in DOMAIN ledger /\ ledger[pb[1].dir].status = "ignored")
          => \/ UNCHANGED <<queue, ledger>>
             \/ /\ ItemId(pb[1].dir) \in DOMAIN queue'
                /\ queue'[ItemId(pb[1].dir)].status = "pending"
                /\ queue'[ItemId(pb[1].dir)].files = pb[1].files
                /\ ledger'[pb[1].dir].status = "pending"
                /\ ledger'[pb[1].dir].files = pb[1].files]_vars

\* A rejected group was emitted again with the same files and the same hash,
\* and process_book has passed its history check.
WitnessC38_RejectedGroupBack ==
    /\ pb # None
    /\ config.WEB_UI_ENABLED
    /\ pb[1].dir \in DOMAIN ledger
    /\ ledger[pb[1].dir].status = "ignored"
    /\ ledger[pb[1].dir].content_hash = pb[1].hash
    /\ ledger[pb[1].dir].files = pb[1].files


\* ---------------------------------------------------------------------
\* The watchdog thread and check (monitor.py), step by step: the handlers of
\* AutoLibrarianHandler run on the observer's thread and can fall between
\* any two statements of StabilityChecker.check on the loop's thread.
\* ---------------------------------------------------------------------

\* Horizon of the clock in this specification.
MaxWatchTime == 8

\* How many times one path is taken into tracking.
MaxEpisodes == 2

\* The variant of AfterCallback where a callback that raised puts the path
\* back into tracking.
AfterCallback_PutBack(t, f, raised) ==
    IF raised /\ f \notin DOMAIN t
    THEN WithKey(t, f, [last_size |-> -1, last_mtime |-> -1, stable_start_time |-> None])
    ELSE t

\* monitor.py lines 87-90: the tracker after process_callback returned or
\* raised; the handler of the exception only logs.
AfterCallback(t, f, raised) == t

\* on_created, on_moved (add_file) or on_modified (update_activity) for a
\* file, and scan_existing_files: a tracked path is left alone, any other is
\* passed to add_file.  The handlers run one after the other on the
\* observer's thread; check never adds an entry.
WatchEvent(f) ==
    /\ f \in DOMAIN disk
    /\ f \notin DOMAIN tracked => wd.hist[f].episode < MaxEpisodes
    /\ tracked' = TrackerAdd(tracked, f)
    /\ wd' = [wd EXCEPT
                !.last = Some([path |-> f, during |-> loop_pc,
                               before |-> IF f \in DOMAIN tracked
                                          THEN Some(tracked[f]) ELSE None]),
                !.hist[f].episode = IF f \in DOMAIN tracked' /\ f \notin DOMAIN tracked
                                    THEN @ + 1 ELSE @]
    /\ UNCHANGED <<now, loop_pc, disk, groups, obsRun, handoff, emitted, envOps, to_process>>
    /\ UNCHANGED <<enrichVars, pipeVars, archiveVars, lockVars, stageVars, identVars>>

\* time.sleep(1) and the call of Monitor.tick.
WatchSleep ==
    /\ now < MaxWatchTime
    /\ LoopSleep

\* check, lines 56-82: the loop over a copy of the entries.  Paths that are
\* gone are discarded, the others are sampled, and the stable ones are
\* collected in to_process.
WatchScan(statFails) ==
    /\ loop_pc = "monitor"
    /\ LET gone == Disappeared(tracked, disk)
           seen == (DOMAIN tracked \cap DOMAIN disk) \ statFails
       IN  tracked' = [f \in DOMAIN tracked \ gone |->
                         IF f \in seen THEN CheckEntry(tracked[f], disk[f], now)
                                       ELSE tracked[f]]
    /\ to_process' = ToProcess(statFails)
    /\ loop_pc' = "process"
    /\ UNCHANGED <<now, disk, groups, obsRun, handoff, emitted, envOps, wd>>
    /\ UNCHANGED <<enrichVars, pipeVars, archiveVars, lockVars, stageVars, identVars>>

\* check, line 85: the entry of the next path of to_process is deleted.
WatchDel(f) ==
    /\ loop_pc = "process"
    /\ wd.calling = None
    /\ f \in to_process
    /\ f \in DOMAIN tracked
    /\ tracked' = WithoutKey(tracked, f)
    /\ to_process' = to_process \ {f}
    /\ wd' = [wd EXCEPT !.calling = Some(f), !.hist[f].handed = wd.hist[f].episode]
    /\ UNCHANGED <<now, loop_pc, disk, groups, obsRun, handoff, emitted, envOps>>
    /\ UNCHANGED <<enrichVars, pipeVars, archiveVars, lockVars, stageVars, identVars>>

\* check, lines 87-90: process_callback runs for the path; it hands the path
\* to the grouper, or raises, which is logged.
WatchCallback(raised) ==
    /\ loop_pc = "process"
    /\ wd.calling # None
    /\ LET f == wd.calling[1]
       IN  /\ tracked' = AfterCallback(tracked, f, raised)
           /\ groups' = IF raised THEN groups ELSE GrouperAdd(groups, {f}, now)
    /\ wd' = [wd EXCEPT !.calling = None]
    /\ UNCHANGED <<now, loop_pc, disk, obsRun, handoff, emitted, envOps, to_process>>
    /\ UNCHANGED <<enrichVars, pipeVars, archiveVars, lockVars, stageVars, identVars>>

\* check returns and the loop goes on to IngestionManager.tick.
WatchReturn ==
    /\ loop_pc = "process"
    /\ wd.calling = None
    /\ to_process = {}
    /\ loop_pc' = "ingest"
    /\ UNCHANGED <<now, disk, tracked, groups, obsRun, handoff, emitted, envOps, watchVars>>
    /\ UNCHANGED <<enrichVars, pipeVars, archiveVars, lockVars, stageVars, identVars>>

InitWatch ==
    /\ IngestIdle
    /\ EnrichIdle
    /\ PipeIdle
    /\ ArchiveIdle
    /\ LockIdle
    /\ StageIdle
    /\ IdentIdle
    /\ WatchIdle

NextWatch ==
    \/ \E f \in Files, s \in Sizes : WriteFile(f, [NewFileStat EXCEPT !.size = s])
    \/ \E f \in Files : DeleteFile(f)
    \/ \E f \in Files : WatchEvent(f)
    \/ WatchSleep
    \/ \E statFails \in {{}} \cup {{f} : f \in DOMAIN tracked \cap DOMAIN disk} :
          WatchScan(statFails)
    \/ \E f \in Files : WatchDel(f)
    \/ \E raised \in BOOLEAN : WatchCallback(raised)
    \/ WatchReturn
    \/ IngestTick

SpecWatch == InitWatch /\ [][NextWatch]_vars

\* C39: a watchdog event for a tracked path leaves its entry as it was,
\* wherever in check it falls; no step other than those of check changes or
\* removes an entry.
ClaimC39_EventLeavesEntry ==
    [][(wd'.last # wd.last \/ (loop_pc' = loop_pc /\ to_process' = to_process)) =>
            \A f \in DOMAIN tracked : f \in DOMAIN tracked' /\ tracked'[f] = tracked[f]]_vars

\* An event arrived for a tracked path whose debounce was running, between
\* the two loops of check, and the entry is as it was before the event.
WitnessC39_EventDuringCheck ==
    /\ wd.last # None
    /\ wd.last[1].during = "process"
    /\ wd.last[1].before # None
    /\ wd.last[1].before[1].stable_start_time # None
    /\ wd.last[1].path \in DOMAIN tracked
    /\ tracked[wd.last[1].path] = wd.last[1].before[1]


\* C40: a path is handed to the callback at most once for each time it is
\* taken into tracking: the hand-off deletes its entry before the callback
\* runs, and neither a callback that returns nor one that raises creates an
\* entry, so that a path is handed over again only after an event or a scan
\* has tracked it again.
ClaimC40_OnceForEachEpisode ==
    /\ [][\A f \in Files :
            (wd'.calling = Some(f) /\ wd.calling = None) =>
               /\ f \in DOMAIN tracked
               /\ f \notin DOMAIN tracked'
               /\ wd.hist[f].handed < wd.hist[f].episode]_vars
    /\ [][(wd.calling # None /\ wd'.calling = None) =>
            DOMAIN tracked' \subseteq DOMAIN tracked]_vars
    /\ [](\A f \in Files : wd.hist[f].handed <= wd.hist[f].episode)

\* A path was handed to a callback, tracked again by a later event, and is
\* being handed over a second time.
WitnessC40_HandedAgainAfterNewEvent ==
    \E f \in Files :
        /\ wd.calling = Some(f)
        /\ wd.hist[f].episode = 2
        /\ wd.hist[f].handed = 2

====
